---- MODULE Spec2Model ----
(***************************************************************************)
(* A model of fmeval's evaluation utilities:                               *)
(*   src/src/fmeval/eval_algorithms/util.py                                *)
(*   src/src/fmeval/transforms/semantic_robustness_metrics.py              *)
(*                                                                         *)
(* Each component has its own specification (the components share no       *)
(* state):                                                                 *)
(*   SpecAgg     aggregate_evaluation_scores                               *)
(*   SpecRecord  EvalOutputRecord.from_row and _to_dict                    *)
(*   SpecSave    save_dataset                                              *)
(*   SpecGen     generate_output_dataset_path                              *)
(*   SpecWER     WER.__init__                                              *)
(*   SpecCall    BertScoreDissimilarity.__init__, and one call of a WER or *)
(*               a BertScoreDissimilarity transform on a record            *)
(*   SpecDet     verify_model_determinism                                  *)
(*   SpecEvalOutput  the construction of an EvalOutput                     *)
(*   SpecEq      equality of CategoryScores and of EvalOutputs             *)
(*   SpecValidate  validate_dataset                                        *)
(*   SpecMap     generate_model_predict_response_for_dataset and           *)
(*               generate_prompt_column_for_dataset, row by row            *)
(*   SpecPermute aggregate_evaluation_scores on a dataset and on the same  *)
(*               rows in another order                                     *)
(*                                                                         *)
(* fmeval.constants, fmeval.transforms.common/transform/util and           *)
(* fmeval.eval_algorithms (EvalScore, CategoryScore, EvalOutput) are not   *)
(* among the sources: what the model needs of them follows their            *)
(* specification.                                                          *)
(*                                                                         *)
(* Floats are modelled as exact rationals [num, den] in lowest terms, so    *)
(* rounding is not modelled.  None (of an Optional float) is the rational  *)
(* with den = 0.                                                           *)
(***************************************************************************)
EXTENDS Integers, Sequences, FiniteSets, TLC

VARIABLES
    \* ---- aggregate_evaluation_scores(dataset, score_column_names, agg_method)
    dataset,             \* the rows of the Ray dataset, in dataset order
    columns,             \* dataset.columns(): the names of its columns
    score_column_names,  \* the argument score_column_names
    agg_method,          \* the argument agg_method
    agg_pc,              \* "idle" | "call" | "done"
    agg_result,          \* what the call returned or raised
    \* ---- EvalOutputRecord.from_row(row, score_names) and _to_dict
    row,                 \* the dataset row, a dict: its items in insertion order
    score_names,         \* the argument score_names
    rec_pc,              \* "idle" | "from_row" | "to_dict" | "done" | "construct" | "constructed"
    record,              \* the EvalOutputRecord from_row returned, or what it raised
    json_obj,            \* the OrderedDict _to_dict returned: its items in order
    \* ---- save_dataset(dataset, score_names, path)
    save_rows,           \* the rows of the argument dataset, in dataset order
    save_score_names,    \* the argument score_names
    path,                \* the argument path, a string: its pieces in order
    batch_size,          \* EVAL_OUTPUT_RECORDS_BATCH_SIZE
    save_pc,             \* "idle" | "map" | "materialize" | "open" | "iterate" | "done"
    mapped,              \* the local `dataset` after dataset.map(...)
    full_path,           \* the local full_path: the file that is opened
    iter,                \* the rows dataset.iter_rows() has still to yield
    records,             \* the local list records
    fh,                  \* the contents of the file written so far
    \* ---- generate_output_dataset_path(path_to_parent_dir, eval_name, dataset_name)
    gen_dir,             \* the argument path_to_parent_dir, the same for all calls
    gen_calls,           \* the calls made: [eval_name, dataset_name, result]
    \* ---- WER(prediction_keys, reference_keys, output_key)
    prediction_keys,     \* the argument prediction_keys
    reference_keys,      \* the argument reference_keys
    output_key,          \* the argument output_key
    wer_pc,              \* "idle" | "init" | "done"
    wer,                 \* what the constructor produced or raised
    \* ---- BertScoreDissimilarity(bert_score_keys, output_key), and one call
    \* ---- transform(record) of the WER or the BertScoreDissimilarity built
    bert_score_keys,     \* the argument bert_score_keys
    bsd_output_key,      \* the argument output_key of BertScoreDissimilarity
    bsd,                 \* what the constructor produced or raised
    call_target,         \* which transform is called: "WER" | "BSD"
    call_arg,            \* the record as it was when the call was made
    call_record,         \* the record (a dict the call mutates in place)
    call_pc,             \* "idle" | "init" | "call" | "done"
    call_result,         \* what the call returned or raised
    wer_compute_calls,   \* the calls of self.wer.compute made: their arguments
    \* ---- verify_model_determinism(model, dataset, prompt_column_name)
    det_prompts,         \* row[prompt_column_name] of the dataset's rows, in order
    num_rows_deterministic, \* NUM_ROWS_DETERMINISTIC
    det_pc,              \* "idle" | "loop" | "second" | "done"
    det_iter,            \* the prompts iter_rows() has still to yield
    original_model_output, \* the local original_model_output
    predict_calls,       \* the calls model.predict made: [prompt, output]
    det_result,          \* "none" | "True" | "False"
    \* ---- EvalOutput(eval_name, dataset_name, dataset_scores, category_scores, error)
    eo_dataset_scores,   \* the argument dataset_scores (Optional)
    eo_category_scores,  \* the argument category_scores (Optional)
    eo_error,            \* the argument error (Optional)
    eo_pc,               \* "idle" | "init" | "done"
    eo,                  \* the EvalOutput constructed, or what was raised
    \* ---- a == b of two CategoryScores or of two EvalOutputs
    eq_kind,             \* "" | "CategoryScore" | "EvalOutput"
    eq_a,                \* the left operand
    eq_b,                \* the right operand
    eq_pc,               \* "idle" | "compare" | "done"
    eq_result,           \* "none" | "True" | "False"
    \* ---- validate_dataset(dataset, column_names)
    val_columns,         \* dataset.columns(): the names of the dataset's columns
    val_column_names,    \* the argument column_names
    val_pc,              \* "idle" | "call" | "done"
    val_result,          \* what the call returned or raised
    \* ---- generate_model_predict_response_for_dataset(model, data, ...) and
    \* ---- generate_prompt_column_for_dataset(prompt_template, data, ...)
    gp_kind,             \* which is called: "" | "predict" | "prompt"
    gp_rows,             \* the rows of the argument data, in dataset order
    gp_output_col,       \* model_output_column_name ("" for None)
    gp_log_prob_col,     \* model_log_probability_column_name ("" for None)
    gp_failing,          \* the model inputs on which predict (compose) raises
    gp_num_actors,       \* get_num_actors(): the size of the actor pool
    gp_actors,           \* the ModelRunnerWrapper of each actor of the pool
    gp_mapped,           \* for each row, what the map function returned for it
    gp_calls,            \* for each row, the calls of predict made for it
    gp_pc,               \* "idle" | "map" | "done" | "raised"
    gp_result,           \* the rows of the dataset returned
    \* ---- aggregate_evaluation_scores on the same rows in another order
    perm_dataset,        \* the rows of `dataset`, reordered
    perm_result          \* what the call on perm_dataset returned or raised

aggVars == <<dataset, columns, score_column_names, agg_method, agg_pc, agg_result>>

recVars == <<row, score_names, rec_pc, record, json_obj>>

saveVars == <<save_rows, save_score_names, path, batch_size, save_pc, mapped,
              full_path, iter, records, fh>>

genVars == <<gen_dir, gen_calls>>

werVars == <<prediction_keys, reference_keys, output_key, wer_pc, wer>>

callVars == <<bert_score_keys, bsd_output_key, bsd, call_target, call_arg,
              call_record, call_pc, call_result, wer_compute_calls>>

detVars == <<det_prompts, num_rows_deterministic, det_pc, det_iter,
             original_model_output, predict_calls, det_result>>

eoVars == <<eo_dataset_scores, eo_category_scores, eo_error, eo_pc, eo,
            eq_kind, eq_a, eq_b, eq_pc, eq_result>>

valVars == <<val_columns, val_column_names, val_pc, val_result>>

gpVars == <<gp_kind, gp_rows, gp_output_col, gp_log_prob_col, gp_failing,
            gp_num_actors, gp_actors, gp_mapped, gp_calls, gp_pc, gp_result>>

permVars == <<perm_dataset, perm_result>>

vars == <<aggVars, recVars, saveVars, genVars, werVars, callVars, detVars, eoVars, valVars, gpVars, permVars>>

(***************************************************************************)
(* Bounds and input sets                                                   *)
(***************************************************************************)
MaxRows == 3
MaxRowLen == 3
MaxSaveRows == 3
MaxBatch == 3
MaxCalls == 2
MaxKeys == 3
MaxCallKeys == 2
MaxDetRows == 3
MaxSample == 3
MaxEoScores == 2
MaxEoCategories == 2
MaxEqScores == 3
MaxColumnNames == 3
MaxMapRows == 2
MaxActors == 2
MaxPermRows == 3

Categories == {"brownie", "vanilla cake"}
ScoreValues == {0, 1}
ScoreColumns == {"s1", "s2"}
ScoreNameLists ==
    {<<>>, <<"s1">>, <<"s2">>, <<"s1", "s2">>, <<"s2", "s1">>, <<"s1", "s1">>}
AggMethods == {"mean", "median"}

SeqsUpTo(S, n) == UNION {[1..k -> S] : k \in 0..n}

\* The members of the sequence s.
Range(s) == {s[i] : i \in 1..Len(s)}

\* The sequences that list every member of the finite set S exactly once.
Orderings(S) ==
    {o \in [1..Cardinality(S) -> S] : \A i, j \in 1..Cardinality(S) : o[i] = o[j] => i = j}

(***************************************************************************)
(* Floats                                                                  *)
(***************************************************************************)
RECURSIVE GCD(_, _)
GCD(a, b) == IF b = 0 THEN a ELSE GCD(b, a % b)

\* The float n / d (d > 0).
Rat(n, d) == LET g == GCD(n, d) IN [num |-> n \div g, den |-> d \div g]

NoneVal == [num |-> 0, den |-> 0]

\* Float addition rounds its result to the nearest float, ties to the even
\* significand.  Score values are non-negative whole numbers here and the
\* significand is narrowed to three bits, so the whole numbers below 8 are
\* floats and from 8 on the floats are Ulp(n) apart.
RECURSIVE Ulp(_)
Ulp(n) == IF n < 8 THEN 1 ELSE 2 * Ulp(n \div 2)

RoundFloat(n) ==
    LET u == Ulp(n)
        lo == (n \div u) * u
    IN  IF 2 * (n - lo) < u THEN lo
        ELSE IF 2 * (n - lo) > u THEN lo + u
        ELSE IF (lo \div u) % 2 = 0 THEN lo ELSE lo + u

FloatAdd(a, b) == RoundFloat(a + b)

(***************************************************************************)
(* The dataset engine (Ray), as util.py uses it                            *)
(***************************************************************************)
CATEGORY == "category"
MEAN == "mean"

\* The engine adds the values of a column one after the other, in dataset
\* order, each addition a float addition.
RECURSIVE ColumnSumFrom(_, _, _)
ColumnSumFrom(acc, rows, col) ==
    IF rows = <<>> THEN acc
    ELSE ColumnSumFrom(FloatAdd(acc, Head(rows)[col]), Tail(rows), col)

\* A mutant of ColumnSum: the last row is left out.
ColumnSum_drop_last(rows, col) ==
    IF rows = <<>> THEN 0 ELSE ColumnSumFrom(0, SubSeq(rows, 1, Len(rows) - 1), col)

ColumnSum(rows, col) == ColumnSumFrom(0, rows, col)

\* dataset.mean(col): None on a dataset without rows.
DatasetMean(rows, col) ==
    IF Len(rows) = 0 THEN NoneVal ELSE Rat(ColumnSum(rows, col), Len(rows))

\* dataset.unique(col), as a set; the engine returns its members in some order.
DatasetUnique(rows, col) == {rows[i][col] : i \in 1..Len(rows)}

\* dataset.groupby(col): the rows of the group with key `key`, in dataset order.
GroupRows(rows, col, key) == SelectSeq(rows, LAMBDA r : r[col] = key)

\* dataset.groupby(col).mean(score): one row per group, keys in the order `order`.
GroupByMean(rows, col, score, order) ==
    [i \in 1..Len(order) |->
        [category |-> order[i],
         mean     |-> DatasetMean(GroupRows(rows, col, order[i]), score)]]

(***************************************************************************)
(* aggregate_evaluation_scores and its helpers                             *)
(***************************************************************************)
EvalScore(name, value) == [name |-> name, value |-> value]
CategoryScore(name, scores) == [name |-> name, scores |-> scores]

Returned(v) == [status |-> "ok", value |-> v]
Raised(e) == [status |-> e, value |-> NoneVal]

\* A mutant of dataset_aggregation: the column's sum instead of its mean.
dataset_aggregation_sum(rows, score_column_name, method) ==
    IF method = MEAN
    THEN IF Len(rows) = 0
         THEN Raised("AssertionError")
         ELSE Returned(Rat(ColumnSum(rows, score_column_name), 1))
    ELSE Raised("EvalAlgorithmInternalError")

dataset_aggregation(rows, score_column_name, method) ==
    IF method = MEAN
    THEN LET aggregate == DatasetMean(rows, score_column_name) IN
         IF aggregate = NoneVal   \* assert isinstance(aggregate, float)
         THEN Raised("AssertionError")
         ELSE Returned(aggregate)
    ELSE Raised("EvalAlgorithmInternalError")

\* A mutant of category_wise_aggregation: no grouping, every category gets the
\* mean over the whole dataset.
category_wise_aggregation_ungrouped(rows, score_column_name, method, order) ==
    IF method = MEAN
    THEN [status |-> "ok",
          value  |-> [i \in 1..Len(order) |->
                        [category |-> order[i],
                         mean     |-> DatasetMean(rows, score_column_name)]]]
    ELSE [status |-> "EvalAlgorithmInternalError", value |-> <<>>]

category_wise_aggregation(rows, score_column_name, method, order) ==
    IF method = MEAN
    THEN [status |-> "ok",
          value  |-> GroupByMean(rows, CATEGORY, score_column_name, order)]
    ELSE [status |-> "EvalAlgorithmInternalError", value |-> <<>>]

\* A mutant of AppendCategoryScore: the new score goes to the front of the list.
AppendCategoryScore_front(category_scores, category, score) ==
    [i \in 1..Len(category_scores) |->
        IF category_scores[i].name = category
        THEN CategoryScore(category_scores[i].name, <<score>> \o category_scores[i].scores)
        ELSE category_scores[i]]

\* category_scores[category].scores.append(score); category_scores is the dict,
\* kept as the sequence of its values in insertion order.
AppendCategoryScore(category_scores, category, score) ==
    [i \in 1..Len(category_scores) |->
        IF category_scores[i].name = category
        THEN CategoryScore(category_scores[i].name, Append(category_scores[i].scores, score))
        ELSE category_scores[i]]

\* for row in category_aggregate.iter_rows(): ... append ...
RECURSIVE AppendAggregateRows(_, _, _)
AppendAggregateRows(category_scores, aggregate_rows, score_column_name) ==
    IF aggregate_rows = <<>>
    THEN category_scores
    ELSE AppendAggregateRows(
            AppendCategoryScore(category_scores, Head(aggregate_rows).category,
                                EvalScore(score_column_name, Head(aggregate_rows).mean)),
            Tail(aggregate_rows), score_column_name)

\* A mutant of CategoryLoop: the loop ends after the first score column.
CategoryLoop_first_only(category_scores, rows, names, method, order) ==
    IF names = <<>>
    THEN [status |-> "ok", value |-> category_scores]
    ELSE LET category_aggregate ==
                 category_wise_aggregation(rows, Head(names), method, order) IN
         IF category_aggregate.status # "ok"
         THEN [status |-> category_aggregate.status, value |-> <<>>]
         ELSE [status |-> "ok",
               value |-> AppendAggregateRows(category_scores, category_aggregate.value,
                                             Head(names))]

\* for score_column_name in score_column_names: ... ; a raise ends the loop.
RECURSIVE CategoryLoop(_, _, _, _, _)
CategoryLoop(category_scores, rows, names, method, order) ==
    IF names = <<>>
    THEN [status |-> "ok", value |-> category_scores]
    ELSE LET category_aggregate ==
                 category_wise_aggregation(rows, Head(names), method, order) IN
         IF category_aggregate.status # "ok"
         THEN [status |-> category_aggregate.status, value |-> <<>>]
         ELSE CategoryLoop(
                 AppendAggregateRows(category_scores, category_aggregate.value, Head(names)),
                 rows, Tail(names), method, order)

\* The list comprehension of dataset_scores; a raise ends it.
RECURSIVE DatasetScores(_, _, _)
DatasetScores(rows, names, method) ==
    IF names = <<>>
    THEN [status |-> "ok", value |-> <<>>]
    ELSE LET first == dataset_aggregation(rows, Head(names), method)
             rest  == DatasetScores(rows, Tail(names), method) IN
         IF first.status # "ok" THEN [status |-> first.status, value |-> <<>>]
         ELSE IF rest.status # "ok" THEN rest
         ELSE [status |-> "ok",
               value  |-> <<EvalScore(Head(names), first.value)>> \o rest.value]

NoResult == [status |-> "none", dataset_scores |-> <<>>,
             category_scores |-> [some |-> FALSE, val |-> <<>>]]

AggRaised(e) == [status |-> e, dataset_scores |-> <<>>,
                 category_scores |-> [some |-> FALSE, val |-> <<>>]]

\* unique_order: the order in which dataset.unique returns the categories;
\* group_order: the order of the rows of a groupby aggregate.
aggregate_evaluation_scores(rows, cols, names, method, unique_order, group_order) ==
    LET dataset_scores == DatasetScores(rows, names, method) IN
    IF dataset_scores.status # "ok"
    THEN AggRaised(dataset_scores.status)
    ELSE IF CATEGORY \in cols
    THEN LET initial == [i \in 1..Len(unique_order) |->
                            CategoryScore(unique_order[i], <<>>)]
             category_scores == CategoryLoop(initial, rows, names, method, group_order) IN
         IF category_scores.status # "ok"
         THEN AggRaised(category_scores.status)
         ELSE [status |-> "ok",
               dataset_scores |-> dataset_scores.value,
               \* list(category_scores.values()) if category_scores else None
               category_scores |->
                   IF category_scores.value # <<>>
                   THEN [some |-> TRUE, val |-> category_scores.value]
                   ELSE [some |-> FALSE, val |-> <<>>]]
    ELSE [status |-> "ok",
          dataset_scores |-> dataset_scores.value,
          category_scores |-> [some |-> FALSE, val |-> <<>>]]

(***************************************************************************)
(* EvalOutputRecord                                                        *)
(***************************************************************************)
\* Python values of a row: a str or a float, each with its text.
Str(s) == [type |-> "str", v |-> s]
Num(s) == [type |-> "float", v |-> s]
IsNumber(value) == value.type = "float"   \* isinstance(value, float) or isinstance(value, int)

\* constants.DATASET_COLUMNS: the allow-list of non-score columns, in its order.
DATASET_COLUMNS == <<"model_input", "model_output", "category">>

\* A dict is the sequence of its items [key, value] in insertion order.
Keys(dict) == {dict[i].key : i \in 1..Len(dict)}
Get(dict, key) == (CHOOSE item \in Range(dict) : item.key = key).value

\* dict[key] = value
DictSet(dict, key, value) ==
    IF key \in Keys(dict)
    THEN [i \in 1..Len(dict) |->
            IF dict[i].key = key THEN [key |-> key, value |-> value] ELSE dict[i]]
    ELSE Append(dict, [key |-> key, value |-> value])

NoRecord == [status |-> "none", scores |-> <<>>, dataset_columns |-> <<>>]
RecordRaised(e) == [status |-> e, scores |-> <<>>, dataset_columns |-> <<>>]

\* A mutant of EvalOutputRecord: __post_init__ does not look at the columns.
EvalOutputRecord_unchecked(scores, dataset_columns) ==
    [status |-> "ok", scores |-> scores, dataset_columns |-> dataset_columns]

\* EvalOutputRecord(scores=..., dataset_columns=...), with __post_init__.
EvalOutputRecord(scores, dataset_columns) ==
    IF \A col \in Keys(dataset_columns) : col \in Range(DATASET_COLUMNS)
    THEN [status |-> "ok", scores |-> scores, dataset_columns |-> dataset_columns]
    ELSE RecordRaised("EvalAlgorithmInternalError")

\* A mutant of FromRowLoop: a score column of the allow-list is kept as a
\* dataset column too.
RECURSIVE FromRowLoop_keep_scores(_, _, _, _)
FromRowLoop_keep_scores(items, names, dataset_columns, scores) ==
    IF items = <<>>
    THEN EvalOutputRecord(scores, dataset_columns)
    ELSE LET column_name == Head(items).key
             value == Head(items).value
             kept == IF column_name \in Range(DATASET_COLUMNS)
                     THEN DictSet(dataset_columns, column_name, value)
                     ELSE dataset_columns IN
         IF column_name \notin Range(names)
         THEN FromRowLoop_keep_scores(Tail(items), names, kept, scores)
         ELSE IF ~IsNumber(value)
         THEN RecordRaised("AssertionError")
         ELSE FromRowLoop_keep_scores(Tail(items), names, kept,
                                      Append(scores, EvalScore(column_name, value)))

\* for column_name, value in row.items(): ... ; then the constructor.
RECURSIVE FromRowLoop(_, _, _, _)
FromRowLoop(items, names, dataset_columns, scores) ==
    IF items = <<>>
    THEN EvalOutputRecord(scores, dataset_columns)
    ELSE LET column_name == Head(items).key
             value == Head(items).value IN
         IF column_name \notin Range(names)
         THEN IF column_name \in Range(DATASET_COLUMNS)
              THEN FromRowLoop(Tail(items), names,
                               DictSet(dataset_columns, column_name, value), scores)
              ELSE FromRowLoop(Tail(items), names, dataset_columns, scores)
         ELSE IF ~IsNumber(value)   \* assert isinstance(value, float) or ...
         THEN RecordRaised("AssertionError")
         ELSE FromRowLoop(Tail(items), names, dataset_columns,
                          Append(scores, EvalScore(column_name, value)))

from_row(r, names) == FromRowLoop(r, names, <<>>, <<>>)

\* [eval_score.__dict__ for eval_score in self.scores]
ScoreDicts(scores) ==
    [i \in 1..Len(scores) |-> [name |-> scores[i].name, value |-> scores[i].value]]

\* The comprehension of _to_dict over the column sequence `order`.
RECURSIVE ColumnItems(_, _)
ColumnItems(order, dataset_columns) ==
    IF order = <<>> THEN <<>>
    ELSE IF Head(order) \in Keys(dataset_columns)
    THEN <<[key |-> Head(order), value |-> Get(dataset_columns, Head(order))]>>
             \o ColumnItems(Tail(order), dataset_columns)
    ELSE ColumnItems(Tail(order), dataset_columns)

\* A mutant of to_dict: the columns in the order of the row, not of the allow-list.
to_dict_row_order(rec) ==
    Append(rec.dataset_columns,
           [key |-> "scores", value |-> [type |-> "list", items |-> ScoreDicts(rec.scores)]])

\* EvalOutputRecord._to_dict
to_dict(rec) ==
    Append(ColumnItems(DATASET_COLUMNS, rec.dataset_columns),
           [key |-> "scores", value |-> [type |-> "list", items |-> ScoreDicts(rec.scores)]])


(***************************************************************************)
(* save_dataset                                                            *)
(***************************************************************************)
\* A string is the sequence of its pieces: "/", "." and names that hold
\* neither ("out/f.json" is <<"out", "/", "f", ".", "json">>).
SEP == "/"
DOT == "."

\* The last index of piece c in p, 0 when there is none (str.rfind(c) + 1).
LastIndexOf(p, c) ==
    IF \E i \in 1..Len(p) : p[i] = c
    THEN CHOOSE i \in 1..Len(p) : p[i] = c /\ \A j \in (i + 1)..Len(p) : p[j] # c
    ELSE 0

\* str.rstrip("/")
RECURSIVE RStripSep(_)
RStripSep(p) ==
    IF p # <<>> /\ p[Len(p)] = SEP THEN RStripSep(SubSeq(p, 1, Len(p) - 1)) ELSE p

\* os.path.dirname (posixpath)
dirname(p) ==
    LET head == SubSeq(p, 1, LastIndexOf(p, SEP)) IN
    IF head # <<>> /\ \E i \in 1..Len(head) : head[i] # SEP
    THEN RStripSep(head)
    ELSE head

\* os.path.basename (posixpath)
basename(p) == SubSeq(p, LastIndexOf(p, SEP) + 1, Len(p))

\* os.path.splitext(p)[0] (genericpath._splitext): the last dot splits off the
\* extension unless only dots precede it in the file name.
splitext_root(p) ==
    LET sepIndex == LastIndexOf(p, SEP)
        dotIndex == LastIndexOf(p, DOT) IN
    IF dotIndex > sepIndex /\ \E i \in (sepIndex + 1)..(dotIndex - 1) : p[i] # DOT
    THEN SubSeq(p, 1, dotIndex - 1)
    ELSE p

\* full_path = f"{path_to_parent_dir}/{file_name_without_extension}.jsonl"
FullPath(p) ==
    LET path_to_parent_dir == dirname(p)
        file_name == basename(p)
        file_name_without_extension == splitext_root(file_name) IN
    path_to_parent_dir \o <<SEP>> \o file_name_without_extension \o <<DOT, "jsonl">>

\* The file is a sequence of pieces: a line of text, or the newline "\n".
NEWLINE == [newline |-> TRUE]
Line(text) == [newline |-> FALSE, text |-> text]

\* str(record) = json.dumps(record._to_dict()): the text of the JSON object.
RecordStr(rec) == Line(to_dict(rec))

\* "\n".join(lines)
RECURSIVE Join(_)
Join(lines) ==
    IF Len(lines) <= 1 THEN lines
    ELSE <<Head(lines), NEWLINE>> \o Join(Tail(lines))

\* One turn of the loop of save_dataset: records.append(line), line being
\* str(record), and a write of the batch when it is full.
AppendRecord(buffer, file, line, batch) ==
    LET appended == Append(buffer, line) IN
    IF Len(appended) = batch
    THEN [records |-> <<>>, fh |-> file \o Join(appended) \o <<NEWLINE>>]
    ELSE [records |-> appended, fh |-> file]

\* if records: fh.write("\n".join(records))
LastBatch(buffer, file) == IF buffer # <<>> THEN file \o Join(buffer) ELSE file

\* The whole loop on the lines str(record), from the state [records, fh].
RECURSIVE WriteLoop(_, _, _)
WriteLoop(state, lines, batch) ==
    IF lines = <<>> THEN LastBatch(state.records, state.fh)
    ELSE WriteLoop(AppendRecord(state.records, state.fh, Head(lines), batch),
                   Tail(lines), batch)

\* dataset.map(fn): a lazy dataset, nothing is executed or ordered yet.
DatasetMap(rows, names) ==
    [rows |-> [i \in 1..Len(rows) |-> from_row(rows[i], names)], materialized |-> FALSE]

\* dataset.materialize(): returns a materialized dataset and does not change
\* the dataset it is called on (util.py:84-87 and 111 keep the returned one).
Materialize(ds) == [rows |-> ds.rows, materialized |-> TRUE]

\* dataset.iter_rows(): the orders in which the rows can come.  A materialized
\* dataset yields them in its own order; for one that is not, the order is
\* not guaranteed (util.py:318-319).
IterRowsOrders(ds) ==
    IF ds.materialized
    THEN {[i \in 1..Len(ds.rows) |-> i]}
    ELSE Orderings(1..Len(ds.rows))

(***************************************************************************)
(* generate_output_dataset_path                                            *)
(***************************************************************************)
\* os.path.join(a, b) (posixpath)
PathJoin(a, b) ==
    IF b # <<>> /\ b[1] = SEP THEN b
    ELSE IF a = <<>> \/ a[Len(a)] = SEP THEN a \o b
    ELSE a \o <<SEP>> \o b

generate_output_dataset_path(parent_dir, eval_name, dataset_name) ==
    PathJoin(parent_dir, eval_name \o <<"_">> \o dataset_name \o <<DOT, "jsonl">>)

(***************************************************************************)
(* WER.__init__                                                            *)
(***************************************************************************)
DIGITS == <<"0", "1", "2", "3", "4", "5", "6", "7", "8", "9">>

\* str(n) of an int n >= 0: its decimal digits.
RECURSIVE DecimalStr(_)
DecimalStr(n) ==
    IF n < 10 THEN <<DIGITS[n + 1]>>
    ELSE DecimalStr(n \div 10) \o <<DIGITS[(n % 10) + 1]>>

WER_MESSAGE_HEAD ==
    "prediction_keys and reference_keys should have the same number of elements. "

\* The message given to require: the f-string with both lengths.
WerMessage(m, n) ==
    <<WER_MESSAGE_HEAD, "prediction_keys has ">> \o DecimalStr(m)
        \o <<" elements while reference_keys has ">> \o DecimalStr(n)
        \o <<" elements.">>

NoWER == [status |-> "none", message |-> <<>>, prediction_keys |-> <<>>,
          reference_keys |-> <<>>, output_key |-> "", input_keys |-> <<>>,
          output_keys |-> <<>>]

\* A mutant of WER_init: the two lengths change places in the message.
WER_init_swapped(pks, rks, out) ==
    IF Len(pks) # Len(rks)
    THEN [NoWER EXCEPT !.status = "EvalAlgorithmClientError",
                       !.message = WerMessage(Len(rks), Len(pks))]
    ELSE [status |-> "ok", message |-> <<>>, prediction_keys |-> pks,
          reference_keys |-> rks, output_key |-> out,
          input_keys |-> pks \o rks, output_keys |-> <<out>>]

\* WER.__init__: require(...) raises EvalAlgorithmClientError with the message
\* when the lengths differ; otherwise the keys are registered and stored.
WER_init(pks, rks, out) ==
    IF Len(pks) # Len(rks)
    THEN [NoWER EXCEPT !.status = "EvalAlgorithmClientError",
                       !.message = WerMessage(Len(pks), Len(rks))]
    ELSE [status |-> "ok", message |-> <<>>, prediction_keys |-> pks,
          reference_keys |-> rks, output_key |-> out,
          input_keys |-> pks \o rks, output_keys |-> <<out>>]

(***************************************************************************)
(* Transform.__call__: validate_call, Mean, BertScoreDissimilarity, WER    *)
(***************************************************************************)
\* Float arithmetic on the exact rationals; a numerator may be negative.
RatAdd(a, b) == Rat(a.num * b.den + b.num * a.den, a.den * b.den)
RatSub(a, b) == Rat(a.num * b.den - b.num * a.den, a.den * b.den)
RatDivInt(a, n) == Rat(a.num, a.den * n)

RECURSIVE RatSum(_)
RatSum(values) ==
    IF values = <<>> THEN Rat(0, 1) ELSE RatAdd(values[1], RatSum(Tail(values)))

ONE == Rat(1, 1)

\* [record[k] for k in keys]
ValuesAt(rec, keys) == [i \in 1..Len(keys) |-> Get(rec, keys[i])]

\* What a call of a transform did: `record` is the dict after the call (the
\* call mutates the caller's dict in place and returns that same dict),
\* `compute_calls` the calls of the external metric it made.
NoCall == [status |-> "none", transform |-> "", key |-> "", record |-> <<>>,
           compute_calls |-> <<>>]
CallReturned(rec, calls) ==
    [status |-> "ok", transform |-> "", key |-> "", record |-> rec,
     compute_calls |-> calls]
CallRaised(error, name, key, rec) ==
    [status |-> error, transform |-> name, key |-> key, record |-> rec,
     compute_calls |-> <<>>]

\* The declared keys, in order, that the record lacks.
MissingKeys(rec, keys) == SelectSeq(keys, LAMBDA k : k \notin Keys(rec))

\* The decorator validate_call: every declared input key is checked present
\* before the decorated __call__ runs; a missing one is a MissingKey error
\* naming the transform and the key, and the record is not touched.
\* call_output is what the decorated __call__ does on the record.
validate_call(name, input_keys, rec, call_output) ==
    IF MissingKeys(rec, input_keys) # <<>>
    THEN CallRaised("MissingKey", name, MissingKeys(rec, input_keys)[1], rec)
    ELSE call_output

\* Mean(input_keys, output_key): N >= 1 input keys are required.
Mean_init(input_keys, out) ==
    IF Len(input_keys) = 0
    THEN [status |-> "ConfigError", input_keys |-> <<>>, output_key |-> ""]
    ELSE [status |-> "ok", input_keys |-> input_keys, output_key |-> out]

\* The body of Mean.__call__: record[output_key] = sum(values) / N.
Mean_body(self, rec) ==
    IF MissingKeys(rec, self.input_keys) # <<>>
    THEN CallRaised("KeyError", "", MissingKeys(rec, self.input_keys)[1], rec)
    ELSE CallReturned(
            DictSet(rec, self.output_key,
                    RatDivInt(RatSum(ValuesAt(rec, self.input_keys)),
                              Len(self.input_keys))),
            <<>>)

\* Mean.__call__, decorated with validate_call.
Mean_call(self, rec) ==
    validate_call("Mean", self.input_keys, rec, Mean_body(self, rec))

NoBSD == [status |-> "none", bert_score_keys |-> <<>>, output_key |-> "",
          input_keys |-> <<>>, output_keys |-> <<>>]

\* BertScoreDissimilarity.__init__: the keys are registered and stored.
BSD_init(keys, out) ==
    [status |-> "ok", bert_score_keys |-> keys, output_key |-> out,
     input_keys |-> keys, output_keys |-> <<out>>]

\* A mutant of BSD_body: the intermediate mean is left under the output key.
BSD_body_mean_left(self, rec) ==
    LET add_mean_bert_score == Mean_init(self.bert_score_keys, self.output_key)
        added == Mean_call(add_mean_bert_score, rec)
    IN  IF add_mean_bert_score.status # "ok"
        THEN CallRaised(add_mean_bert_score.status, "Mean", "", rec)
        ELSE added

\* The body of BertScoreDissimilarity.__call__: a Mean transform is built and
\* applied, then the mean it left under the output key becomes 1 - mean.
BSD_body(self, rec) ==
    LET add_mean_bert_score == Mean_init(self.bert_score_keys, self.output_key)
        added == Mean_call(add_mean_bert_score, rec)
    IN  IF add_mean_bert_score.status # "ok"
        THEN CallRaised(add_mean_bert_score.status, "Mean", "", rec)
        ELSE IF added.status # "ok" THEN added
        ELSE CallReturned(
                DictSet(added.record, self.output_key,
                        RatSub(ONE, Get(added.record, self.output_key))),
                <<>>)


\* BertScoreDissimilarity.__call__, decorated with validate_call.
BSD_call(self, rec) ==
    validate_call("BertScoreDissimilarity", self.input_keys, rec,
                  BSD_body(self, rec))

\* One call self.wer.compute(predictions=..., references=...), and the
\* scalar it returned.
ComputeCall(predictions, references, result) ==
    [predictions |-> predictions, references |-> references, result |-> result]

\* A mutant of WER_body: the predictions and the references change places.
WER_body_swapped(self, rec, wer_metric) ==
    IF MissingKeys(rec, self.prediction_keys \o self.reference_keys) # <<>>
    THEN CallRaised("KeyError", "",
            MissingKeys(rec, self.prediction_keys \o self.reference_keys)[1], rec)
    ELSE CallReturned(
            DictSet(rec, self.output_key, wer_metric),
            <<ComputeCall(ValuesAt(rec, self.reference_keys),
                          ValuesAt(rec, self.prediction_keys), wer_metric)>>)

\* A mutant of WER_body: the scalar is stored under the first prediction key
\* as well as under the output key.
WER_body_two_writes(self, rec, wer_metric) ==
    IF MissingKeys(rec, self.prediction_keys \o self.reference_keys) # <<>>
    THEN CallRaised("KeyError", "",
            MissingKeys(rec, self.prediction_keys \o self.reference_keys)[1], rec)
    ELSE CallReturned(
            DictSet(IF self.prediction_keys = <<>> THEN rec
                    ELSE DictSet(rec, self.prediction_keys[1], wer_metric),
                    self.output_key, wer_metric),
            <<ComputeCall(ValuesAt(rec, self.prediction_keys),
                          ValuesAt(rec, self.reference_keys), wer_metric)>>)

\* The body of WER.__call__; wer_metric is the scalar the external metric
\* returns.  The two list comprehensions are evaluated before the metric is
\* called: record[k] of an absent key raises KeyError.
WER_body(self, rec, wer_metric) ==
    IF MissingKeys(rec, self.prediction_keys \o self.reference_keys) # <<>>
    THEN CallRaised("KeyError", "",
            MissingKeys(rec, self.prediction_keys \o self.reference_keys)[1], rec)
    ELSE CallReturned(
            DictSet(rec, self.output_key, wer_metric),
            <<ComputeCall(ValuesAt(rec, self.prediction_keys),
                          ValuesAt(rec, self.reference_keys), wer_metric)>>)

\* A mutant of WER_call: the method is not decorated with validate_call.
WER_call_unvalidated(self, rec, wer_metric) == WER_body(self, rec, wer_metric)

\* WER.__call__, decorated with validate_call.
WER_call(self, rec, wer_metric) ==
    validate_call("WER", self.input_keys, rec,
                  WER_body(self, rec, wer_metric))

(***************************************************************************)
(* verify_model_determinism                                                *)
(***************************************************************************)
\* A mutant of Limit: every row of the dataset is sampled.
Limit_all(rows, n) == rows

\* dataset.limit(n): the first n rows of the dataset (all of them if it has
\* fewer).
Limit(rows, n) == SubSeq(rows, 1, IF n < Len(rows) THEN n ELSE Len(rows))

\* One call model.predict(prompt), and the output ([0] of what it returned).
PredictCall(prompt, output) == [prompt |-> prompt, output |-> output]

\* A mutant of Differs: the loop goes on whatever the second output is.
Differs_never(second_output, first_output) == FALSE

\* The condition of the if: model.predict(original_prompt)[0] != original_model_output.
Differs(second_output, first_output) == second_output # first_output

(***************************************************************************)
(* EvalScore, CategoryScore, EvalOutput: construction and equality         *)
(***************************************************************************)
\* An Optional value.
PyNone == [some |-> FALSE, val |-> <<>>]
Some(v) == [some |-> TRUE, val |-> v]

\* The names of a list of EvalScores.
ScoreNames(scores) == {scores[i].name : i \in 1..Len(scores)}

NoEvalOutput ==
    [status |-> "none", eval_name |-> "", dataset_name |-> "",
     dataset_scores |-> PyNone, category_scores |-> PyNone, error |-> PyNone]

EvalOutputRaised(e) == [NoEvalOutput EXCEPT !.status = e]

\* Exactly one of dataset_scores and error is set.
OneOfScoresAndError(dataset_scores, error) == dataset_scores.some # error.some

\* A mutant of CategoriesConsistent: only the number of scores is compared.
CategoriesConsistent_count_only(dataset_scores, category_scores) ==
    /\ dataset_scores.some
    /\ \A i \in 1..Len(category_scores) :
          Len(category_scores[i].scores) = Len(dataset_scores.val)

\* Every category reports scores for the same set of score names as
\* dataset_scores, and as many scores.
CategoriesConsistent(dataset_scores, category_scores) ==
    /\ dataset_scores.some
    /\ \A i \in 1..Len(category_scores) :
          /\ ScoreNames(category_scores[i].scores) = ScoreNames(dataset_scores.val)
          /\ Len(category_scores[i].scores) = Len(dataset_scores.val)

\* A mutant of EvalOutput_init: dataset_scores and error may both be set.
EvalOutput_init_either(eval_name, dataset_name, dataset_scores, category_scores, error) ==
    IF ~dataset_scores.some /\ ~error.some
    THEN EvalOutputRaised("AssertionError")
    ELSE IF category_scores.some
            /\ ~CategoriesConsistent(dataset_scores, category_scores.val)
    THEN EvalOutputRaised("AssertionError")
    ELSE [status |-> "ok", eval_name |-> eval_name, dataset_name |-> dataset_name,
          dataset_scores |-> dataset_scores, category_scores |-> category_scores,
          error |-> error]

\* EvalOutput(...), with the validations made after initialisation.
EvalOutput_init(eval_name, dataset_name, dataset_scores, category_scores, error) ==
    IF ~OneOfScoresAndError(dataset_scores, error)
    THEN EvalOutputRaised("AssertionError")
    ELSE IF category_scores.some
            /\ ~CategoriesConsistent(dataset_scores, category_scores.val)
    THEN EvalOutputRaised("AssertionError")
    ELSE [status |-> "ok", eval_name |-> eval_name, dataset_name |-> dataset_name,
          dataset_scores |-> dataset_scores, category_scores |-> category_scores,
          error |-> error]

\* EvalScore.__eq__: the same name and the same value (the tolerance of the
\* float comparison is below what exact rationals tell apart).
EvalScore_eq(a, b) == a.name = b.name /\ a.value = b.value

\* Two score lists compared as unordered collections: as many entries, and
\* every entry of one has an equal in the other.
SameScores(xs, ys) ==
    /\ Len(xs) = Len(ys)
    /\ \A i \in 1..Len(xs) : \E j \in 1..Len(ys) : EvalScore_eq(xs[i], ys[j])
    /\ \A j \in 1..Len(ys) : \E i \in 1..Len(xs) : EvalScore_eq(xs[i], ys[j])

\* Two score lists compared entry by entry.
SameScoresInOrder(xs, ys) ==
    /\ Len(xs) = Len(ys)
    /\ \A i \in 1..Len(xs) : EvalScore_eq(xs[i], ys[i])

\* A mutant of CategoryScore_eq: the scores are compared in order.
CategoryScore_eq_in_order(a, b) == a.name = b.name /\ a.scores = b.scores

\* CategoryScore.__eq__
CategoryScore_eq(a, b) ==
    /\ a.name = b.name
    /\ SameScores(a.scores, b.scores)

\* Two lists of CategoryScores compared as unordered collections.
SameCategoryScores(xs, ys) ==
    /\ Len(xs) = Len(ys)
    /\ \A i \in 1..Len(xs) : \E j \in 1..Len(ys) : CategoryScore_eq(xs[i], ys[j])
    /\ \A j \in 1..Len(ys) : \E i \in 1..Len(xs) : CategoryScore_eq(xs[i], ys[j])

\* EvalOutput.__eq__
EvalOutput_eq(a, b) ==
    /\ a.eval_name = b.eval_name
    /\ a.dataset_name = b.dataset_name
    /\ a.error = b.error
    /\ a.dataset_scores.some = b.dataset_scores.some
    /\ a.dataset_scores.some =>
          SameScoresInOrder(a.dataset_scores.val, b.dataset_scores.val)
    /\ a.category_scores.some = b.category_scores.some
    /\ a.category_scores.some =>
          SameCategoryScores(a.category_scores.val, b.category_scores.val)

\* bool as Python prints it
PyBool(b) == IF b THEN "True" ELSE "False"

(***************************************************************************)
(* validate_dataset                                                        *)
(***************************************************************************)
\* The message given to require for one column name.
MissingColumnMessage(column_name) ==
    <<"Missing required column: ", column_name, ", for evaluate() method">>

NoValidation == [status |-> "none", message |-> <<>>]

\* The column names, in order, that are no column of the dataset.
MissingColumns(cols, column_names) ==
    SelectSeq(column_names, LAMBDA column_name : column_name \notin cols)

\* A mutant of validate_dataset: the last missing column is reported.
validate_dataset_last(cols, column_names) ==
    IF MissingColumns(cols, column_names) = <<>>
    THEN [status |-> "ok", message |-> <<>>]
    ELSE [status |-> "EvalAlgorithmClientError",
          message |-> MissingColumnMessage(
              MissingColumns(cols, column_names)[Len(MissingColumns(cols, column_names))])]

\* validate_dataset: the loop calls require for each column name in order;
\* the first one that is no column of the dataset raises.
RECURSIVE validate_dataset(_, _)
validate_dataset(cols, column_names) ==
    IF column_names = <<>>
    THEN [status |-> "ok", message |-> <<>>]
    ELSE IF Head(column_names) \notin cols
    THEN [status |-> "EvalAlgorithmClientError",
          message |-> MissingColumnMessage(Head(column_names))]
    ELSE validate_dataset(cols, Tail(column_names))

(***************************************************************************)
(* generate_model_predict_response_for_dataset,                            *)
(* generate_prompt_column_for_dataset                                      *)
(***************************************************************************)
MODEL_INPUT == "model_input"
PROMPT == "prompt"

\* model.predict(prompt): the pair (output, log probability), each a function
\* of the prompt.
Predict(prompt) ==
    <<[type |-> "output", of |-> prompt], [type |-> "log_probability", of |-> prompt]>>

\* prompt_composer.compose(model_input)
Compose(model_input) == [type |-> "prompt", of |-> model_input]

\* An actor's ModelRunnerWrapper: inits counts the times it obtained the
\* model runner.
NoWrapper == [initialized |-> FALSE, inits |-> 0]

\* ModelRunnerWrapper.__init__: self.model_runner = model
ModelRunnerWrapper_init(self) == [initialized |-> TRUE, inits |-> self.inits + 1]

\* What the map function did with one row.
NotMapped == [status |-> "none", row |-> <<>>, actor |-> 0]
RowMapped(out_row, actor) == [status |-> "ok", row |-> out_row, actor |-> actor]
RowRaised(actor) == [status |-> "raised", row |-> <<>>, actor |-> actor]

\* A mutant of ModelRunnerWrapper_call: a row on which predict raises is
\* passed on as it is.
ModelRunnerWrapper_call_skip(in_row, input_col, output_col, log_prob_col, failing, actor) ==
    LET prompt == Get(in_row, input_col)
        predict_output == Predict(prompt)
        with_output == IF output_col # ""
                       THEN DictSet(in_row, output_col, predict_output[1]) ELSE in_row
    IN  IF prompt \in failing THEN RowMapped(in_row, actor)
        ELSE RowMapped(IF log_prob_col # ""
                       THEN DictSet(with_output, log_prob_col, predict_output[2])
                       ELSE with_output, actor)

\* A mutant of ModelRunnerWrapper_call: the two members of predict_output
\* change places.
ModelRunnerWrapper_call_swapped(in_row, input_col, output_col, log_prob_col, failing, actor) ==
    LET prompt == Get(in_row, input_col)
        predict_output == Predict(prompt)
        with_output == IF output_col # ""
                       THEN DictSet(in_row, output_col, predict_output[2]) ELSE in_row
    IN  IF prompt \in failing THEN RowRaised(actor)
        ELSE RowMapped(IF log_prob_col # ""
                       THEN DictSet(with_output, log_prob_col, predict_output[1])
                       ELSE with_output, actor)

\* ModelRunnerWrapper.__call__(row): predict_output[0] is written under
\* model_output_column_name and predict_output[1] under
\* model_log_probability_column_name, each if the name is truthy; an
\* exception of predict leaves the call.
ModelRunnerWrapper_call(in_row, input_col, output_col, log_prob_col, failing, actor) ==
    LET prompt == Get(in_row, input_col)
        predict_output == Predict(prompt)
        with_output == IF output_col # ""
                       THEN DictSet(in_row, output_col, predict_output[1]) ELSE in_row
    IN  IF prompt \in failing THEN RowRaised(actor)
        ELSE RowMapped(IF log_prob_col # ""
                       THEN DictSet(with_output, log_prob_col, predict_output[2])
                       ELSE with_output, actor)

\* A mutant of WrapperAfterCall: the model runner is obtained anew for the call.
WrapperAfterCall_reinit(self) == [self EXCEPT !.inits = self.inits + 1]

\* The actor's ModelRunnerWrapper after a call: __call__ reads
\* self.model_runner and assigns nothing to self.
WrapperAfterCall(self) == self

\* _generate_prompt_column(row)
generate_prompt_column(in_row, input_col, prompt_col, failing) ==
    IF Get(in_row, input_col) \in failing THEN RowRaised(0)
    ELSE RowMapped(DictSet(in_row, prompt_col, Compose(Get(in_row, input_col))), 0)

\* The row indices in the order: actor by actor, and in dataset order for
\* each actor.
RECURSIVE ByActor(_, _, _)
ByActor(map_out, actor, max_actor) ==
    IF actor > max_actor THEN <<>>
    ELSE SelectSeq([i \in 1..Len(map_out) |-> i], LAMBDA i : map_out[i].actor = actor)
            \o ByActor(map_out, actor + 1, max_actor)

\* A mutant of MapResult: the rows are gathered actor by actor.
MapResult_by_actor(map_out, max_actor) ==
    [k \in 1..Len(map_out) |-> map_out[ByActor(map_out, 0, max_actor)[k]].row]

\* data.map(...).materialize(): the rows the map function returned, one for
\* each row of data, in the order of data.
MapResult(map_out, max_actor) == [i \in 1..Len(map_out) |-> map_out[i].row]

(***************************************************************************)
(* The components at rest: a specification leaves the others' state idle   *)
(***************************************************************************)
AggIdle ==
    /\ dataset = <<>>
    /\ columns = {}
    /\ score_column_names = <<>>
    /\ agg_method = MEAN
    /\ agg_pc = "idle"
    /\ agg_result = NoResult

RecIdle ==
    /\ row = <<>>
    /\ score_names = <<>>
    /\ rec_pc = "idle"
    /\ record = NoRecord
    /\ json_obj = <<>>

NoDataset == [rows |-> <<>>, materialized |-> FALSE]

SaveIdle ==
    /\ save_rows = <<>>
    /\ save_score_names = <<>>
    /\ path = <<>>
    /\ batch_size = 1
    /\ save_pc = "idle"
    /\ mapped = NoDataset
    /\ full_path = <<>>
    /\ iter = <<>>
    /\ records = <<>>
    /\ fh = <<>>

GenIdle ==
    /\ gen_dir = <<>>
    /\ gen_calls = <<>>

WerIdle ==
    /\ prediction_keys = <<>>
    /\ reference_keys = <<>>
    /\ output_key = ""
    /\ wer_pc = "idle"
    /\ wer = NoWER

CallIdle ==
    /\ bert_score_keys = <<>>
    /\ bsd_output_key = ""
    /\ bsd = NoBSD
    /\ call_target = ""
    /\ call_arg = <<>>
    /\ call_record = <<>>
    /\ call_pc = "idle"
    /\ call_result = NoCall
    /\ wer_compute_calls = <<>>

DetIdle ==
    /\ det_prompts = <<>>
    /\ num_rows_deterministic = 1
    /\ det_pc = "idle"
    /\ det_iter = <<>>
    /\ original_model_output = ""
    /\ predict_calls = <<>>
    /\ det_result = "none"

EoIdle ==
    /\ eo_dataset_scores = PyNone
    /\ eo_category_scores = PyNone
    /\ eo_error = PyNone
    /\ eo_pc = "idle"
    /\ eo = NoEvalOutput
    /\ eq_kind = ""
    /\ eq_a = <<>>
    /\ eq_b = <<>>
    /\ eq_pc = "idle"
    /\ eq_result = "none"

ValIdle ==
    /\ val_columns = {}
    /\ val_column_names = <<>>
    /\ val_pc = "idle"
    /\ val_result = NoValidation

PermIdle ==
    /\ perm_dataset = <<>>
    /\ perm_result = NoResult

GpIdle ==
    /\ gp_kind = ""
    /\ gp_rows = <<>>
    /\ gp_output_col = ""
    /\ gp_log_prob_col = ""
    /\ gp_failing = {}
    /\ gp_num_actors = 1
    /\ gp_actors = <<>>
    /\ gp_mapped = <<>>
    /\ gp_calls = <<>>
    /\ gp_pc = "idle"
    /\ gp_result = <<>>

(***************************************************************************)
(* SpecAgg: one call of aggregate_evaluation_scores                        *)
(***************************************************************************)
RowsWithCategory == [category : Categories, s1 : ScoreValues, s2 : ScoreValues]
RowsWithoutCategory == [s1 : ScoreValues, s2 : ScoreValues]

InitAgg ==
    /\ RecIdle
    /\ SaveIdle
    /\ GenIdle
    /\ WerIdle
    /\ CallIdle
    /\ DetIdle
    /\ EoIdle
    /\ ValIdle
    /\ GpIdle
    /\ PermIdle
    /\ \/ /\ columns = ScoreColumns \cup {CATEGORY}
          /\ dataset \in SeqsUpTo(RowsWithCategory, MaxRows)
       \/ /\ columns = ScoreColumns
          /\ dataset \in SeqsUpTo(RowsWithoutCategory, MaxRows)
    /\ score_column_names \in ScoreNameLists
    /\ agg_method \in AggMethods
    /\ agg_pc = "call"
    /\ agg_result = NoResult

Aggregate ==
    /\ agg_pc = "call"
    /\ \E unique_order \in Orderings(IF CATEGORY \in columns
                                     THEN DatasetUnique(dataset, CATEGORY) ELSE {}) :
       \E group_order \in Orderings(IF CATEGORY \in columns
                                    THEN DatasetUnique(dataset, CATEGORY) ELSE {}) :
          agg_result' = aggregate_evaluation_scores(
                            dataset, columns, score_column_names, agg_method,
                            unique_order, group_order)
    /\ agg_pc' = "done"
    /\ UNCHANGED <<dataset, columns, score_column_names, agg_method>>
    /\ UNCHANGED <<recVars, saveVars, genVars, werVars, callVars, detVars,
                   eoVars, valVars, gpVars, permVars>>

NextAgg == Aggregate

SpecAgg == InitAgg /\ [][NextAgg]_vars

(***************************************************************************)
(* SpecRecord: from_row on one row, then _to_dict on the record            *)
(***************************************************************************)
RowKeys == {"model_input", "model_output", "category", "aux", "rouge", "bert_score"}
RowValues == {Str("hello"), Num("0.5")}
ScoreNamesLists ==
    {<<>>, <<"rouge">>, <<"rouge", "bert_score">>, <<"bert_score", "rouge">>,
     <<"model_input", "rouge">>, <<"rouge", "rouge">>, <<"wer">>}

\* The dicts with at most n items: no key twice.
Dicts(n) ==
    {d \in SeqsUpTo([key : RowKeys, value : RowValues], n) :
        \A i, j \in 1..Len(d) : d[i].key = d[j].key => i = j}

InitRecord ==
    /\ AggIdle
    /\ SaveIdle
    /\ GenIdle
    /\ WerIdle
    /\ CallIdle
    /\ DetIdle
    /\ EoIdle
    /\ ValIdle
    /\ GpIdle
    /\ PermIdle
    /\ row \in Dicts(MaxRowLen)
    /\ \/ /\ rec_pc = "from_row"
          /\ score_names \in ScoreNamesLists
       \/ /\ rec_pc = "construct"
          /\ score_names = <<>>
    /\ record = NoRecord
    /\ json_obj = <<>>

FromRow ==
    /\ rec_pc = "from_row"
    /\ record' = from_row(row, score_names)
    /\ rec_pc' = IF record'.status = "ok" THEN "to_dict" ELSE "done"
    /\ UNCHANGED <<row, score_names, json_obj>>
    /\ UNCHANGED <<aggVars, saveVars, genVars, werVars, callVars, detVars,
                   eoVars, valVars, gpVars, permVars>>

ToDict ==
    /\ rec_pc = "to_dict"
    /\ json_obj' = to_dict(record)
    /\ rec_pc' = "done"
    /\ UNCHANGED <<row, score_names, record>>
    /\ UNCHANGED <<aggVars, saveVars, genVars, werVars, callVars, detVars,
                   eoVars, valVars, gpVars, permVars>>

\* EvalOutputRecord(scores=[], dataset_columns=row) called directly, with
\* the dict `row` as dataset_columns.
Construct ==
    /\ rec_pc = "construct"
    /\ record' = EvalOutputRecord(<<>>, row)
    /\ rec_pc' = "constructed"
    /\ UNCHANGED <<row, score_names, json_obj>>
    /\ UNCHANGED <<aggVars, saveVars, genVars, werVars, callVars, detVars,
                   eoVars, valVars, gpVars, permVars>>

NextRecord == FromRow \/ ToDict \/ Construct

SpecRecord == InitRecord /\ [][NextRecord]_vars

(***************************************************************************)
(* SpecSave: one call of save_dataset                                      *)
(***************************************************************************)
SaveRowKinds ==
    {<<[key |-> "model_input", value |-> Str("hello")],
       [key |-> "aux", value |-> Num("0.189")],
       [key |-> "rouge", value |-> Num("0.5")]>>,
     <<[key |-> "model_input", value |-> Str("world")],
       [key |-> "aux", value |-> Num("0.162")],
       [key |-> "rouge", value |-> Num("0.314")]>>}
SaveScoreNames == {<<"rouge">>, <<>>}
SavePaths ==
    {<<"out", SEP, "f", DOT, "jsonl">>,        \* out/f.jsonl
     <<"out", SEP, "f", DOT, "json">>,         \* out/f.json
     <<"out", SEP, "f">>,                      \* out/f
     <<SEP, "tmp", SEP, "out", SEP, "f">>,     \* /tmp/out/f
     <<SEP, "f", DOT, "json">>,                \* /f.json
     <<"out", SEP, DOT, "f">>,                 \* out/.f
     <<"out", SEP, "f", DOT, "tar", DOT, "json">>,   \* out/f.tar.json
     <<"f", DOT, "jsonl">>,                    \* f.jsonl
     <<"f", DOT, "json">>,                     \* f.json
     <<"f">>}                                  \* f

InitSave ==
    /\ AggIdle
    /\ RecIdle
    /\ GenIdle
    /\ WerIdle
    /\ CallIdle
    /\ DetIdle
    /\ EoIdle
    /\ ValIdle
    /\ GpIdle
    /\ PermIdle
    /\ save_rows \in SeqsUpTo(SaveRowKinds, MaxSaveRows)
    /\ save_score_names \in SaveScoreNames
    /\ path \in SavePaths
    /\ batch_size \in 1..MaxBatch
    /\ save_pc = "map"
    /\ mapped = NoDataset
    /\ full_path = <<>>
    /\ iter = <<>>
    /\ records = <<>>
    /\ fh = <<>>

\* dataset = dataset.map(lambda row: {"record": EvalOutputRecord.from_row(...)})
SaveMap ==
    /\ save_pc = "map"
    /\ mapped' = DatasetMap(save_rows, save_score_names)
    /\ save_pc' = "materialize"
    /\ UNCHANGED <<save_rows, save_score_names, path, batch_size, full_path, iter,
                   records, fh>>
    /\ UNCHANGED <<aggVars, recVars, genVars, werVars, callVars, detVars,
                   eoVars, valVars, gpVars, permVars>>

\* dataset.materialize(): the materialized dataset it returns is dropped.
SaveMaterialize ==
    /\ save_pc = "materialize"
    /\ Materialize(mapped).materialized
    /\ mapped' = mapped
    /\ save_pc' = "open"
    /\ UNCHANGED <<save_rows, save_score_names, path, batch_size, full_path, iter,
                   records, fh>>
    /\ UNCHANGED <<aggVars, recVars, genVars, werVars, callVars, detVars,
                   eoVars, valVars, gpVars, permVars>>

\* full_path is computed, the file opened, and dataset.iter_rows() started.
SaveOpen ==
    /\ save_pc = "open"
    /\ full_path' = FullPath(path)
    /\ fh' = <<>>
    /\ records' = <<>>
    /\ \E order \in IterRowsOrders(mapped) :
          iter' = [i \in 1..Len(order) |-> mapped.rows[order[i]]]
    /\ save_pc' = "iterate"
    /\ UNCHANGED <<save_rows, save_score_names, path, batch_size, mapped>>
    /\ UNCHANGED <<aggVars, recVars, genVars, werVars, callVars, detVars,
                   eoVars, valVars, gpVars, permVars>>

\* One turn of: for dataset_row in dataset.iter_rows()
SaveIterRow ==
    /\ save_pc = "iterate"
    /\ iter # <<>>
    /\ LET record_str == RecordStr(Head(iter))
           next == AppendRecord(records, fh, record_str, batch_size) IN
          /\ records' = next.records
          /\ fh' = next.fh
    /\ iter' = Tail(iter)
    /\ UNCHANGED <<save_rows, save_score_names, path, batch_size, save_pc, mapped,
                   full_path>>
    /\ UNCHANGED <<aggVars, recVars, genVars, werVars, callVars, detVars,
                   eoVars, valVars, gpVars, permVars>>

\* After the loop: the last batch is written and the file closed.
SaveLastBatch ==
    /\ save_pc = "iterate"
    /\ iter = <<>>
    /\ fh' = LastBatch(records, fh)
    /\ records' = records
    /\ save_pc' = "done"
    /\ UNCHANGED <<save_rows, save_score_names, path, batch_size, mapped, full_path, iter>>
    /\ UNCHANGED <<aggVars, recVars, genVars, werVars, callVars, detVars,
                   eoVars, valVars, gpVars, permVars>>

NextSave == SaveMap \/ SaveMaterialize \/ SaveOpen \/ SaveIterRow \/ SaveLastBatch

SpecSave == InitSave /\ [][NextSave]_vars

(***************************************************************************)
(* SpecGen: calls of generate_output_dataset_path under one directory      *)
(***************************************************************************)
ParentDirs ==
    {<<"out">>,                      \* out
     <<SEP, "tmp", SEP, "out">>,     \* /tmp/out
     <<"out", SEP>>,                 \* out/
     <<SEP>>,                        \* /
     <<>>}                           \* the empty string
Names ==
    {<<"a">>, <<"b">>, <<"a", "_", "b">>, <<"b", "_", "a">>}

InitGen ==
    /\ AggIdle
    /\ RecIdle
    /\ SaveIdle
    /\ WerIdle
    /\ CallIdle
    /\ DetIdle
    /\ EoIdle
    /\ ValIdle
    /\ GpIdle
    /\ PermIdle
    /\ gen_dir \in ParentDirs
    /\ gen_calls = <<>>

GeneratePath ==
    /\ Len(gen_calls) < MaxCalls
    /\ \E eval_name \in Names, dataset_name \in Names :
          gen_calls' = Append(gen_calls,
              [eval_name    |-> eval_name,
               dataset_name |-> dataset_name,
               result       |-> generate_output_dataset_path(
                                    gen_dir, eval_name, dataset_name)])
    /\ UNCHANGED gen_dir
    /\ UNCHANGED <<aggVars, recVars, saveVars, werVars, callVars, detVars,
                   eoVars, valVars, gpVars, permVars>>

NextGen == GeneratePath

SpecGen == InitGen /\ [][NextGen]_vars

(***************************************************************************)
(* SpecWER: the construction of one WER transform                          *)
(***************************************************************************)
PredictionKeys == {"p1", "p2"}
ReferenceKeys == {"r1", "r2"}

InitWER ==
    /\ AggIdle
    /\ RecIdle
    /\ SaveIdle
    /\ GenIdle
    /\ CallIdle
    /\ DetIdle
    /\ EoIdle
    /\ ValIdle
    /\ GpIdle
    /\ PermIdle
    /\ prediction_keys \in SeqsUpTo(PredictionKeys, MaxKeys)
    /\ reference_keys \in SeqsUpTo(ReferenceKeys, MaxKeys)
    /\ output_key = "wer"
    /\ wer_pc = "init"
    /\ wer = NoWER

WerInit ==
    /\ wer_pc = "init"
    /\ wer' = WER_init(prediction_keys, reference_keys, output_key)
    /\ wer_pc' = "done"
    /\ UNCHANGED <<prediction_keys, reference_keys, output_key>>
    /\ UNCHANGED <<aggVars, recVars, saveVars, genVars, callVars, detVars,
                   eoVars, valVars, gpVars, permVars>>

NextWER == WerInit

SpecWER == InitWER /\ [][NextWER]_vars

(***************************************************************************)
(* SpecCall: a WER or a BertScoreDissimilarity transform is built and      *)
(* called once on a record                                                 *)
(***************************************************************************)
BertScoreKeys == {"a", "b"}
\* BERTScore values; 3/2 lies outside BERTScore's range [0, 1].
BertScores == {Rat(1, 10), Rat(1, 2), Rat(3, 2)}
WerStrings == {Str("a"), Str("b")}
\* The scalars the external word-error-rate metric may return.
WerMetrics == {Rat(0, 1), Rat(123, 1000)}

\* The dicts whose keys are some of `keys`, in that order, with values in V.
RECURSIVE DictsOver(_, _)
DictsOver(keys, V) ==
    IF keys = <<>> THEN {<<>>}
    ELSE LET rest == DictsOver(Tail(keys), V)
         IN  rest \cup {<<[key |-> keys[1], value |-> v]>> \o d : v \in V, d \in rest}

\* The records given to a WER: strings under some of the keys, and perhaps
\* an earlier value under the key "wer".
WerRecords ==
    LET texts == DictsOver(<<"p1", "p2", "r1", "r2">>, WerStrings)
    IN  texts \cup {Append(d, [key |-> "wer", value |-> ONE]) : d \in texts}

\* The records given to a BertScoreDissimilarity.
BsdRecords == DictsOver(<<"a", "b", "bsd">>, BertScores)

InitCall ==
    /\ AggIdle
    /\ RecIdle
    /\ SaveIdle
    /\ GenIdle
    /\ DetIdle
    /\ EoIdle
    /\ ValIdle
    /\ GpIdle
    /\ PermIdle
    /\ call_target \in {"WER", "BSD"}
    /\ IF call_target = "WER"
       THEN /\ prediction_keys \in SeqsUpTo(PredictionKeys, MaxCallKeys)
            /\ reference_keys \in SeqsUpTo(ReferenceKeys, MaxCallKeys)
            /\ output_key = "wer"
            /\ wer_pc = "init"
            /\ wer = NoWER
            /\ bert_score_keys = <<>>
            /\ bsd_output_key = ""
            /\ call_arg \in WerRecords
       ELSE /\ WerIdle
            /\ bert_score_keys \in SeqsUpTo(BertScoreKeys, MaxCallKeys)
            /\ bsd_output_key \in {"bsd", "a"}
            /\ call_arg \in BsdRecords
    /\ bsd = NoBSD
    /\ call_record = call_arg
    /\ call_pc = "call"
    /\ call_result = NoCall
    /\ wer_compute_calls = <<>>

BsdInit ==
    /\ call_target = "BSD"
    /\ bsd.status = "none"
    /\ bsd' = BSD_init(bert_score_keys, bsd_output_key)
    /\ UNCHANGED <<bert_score_keys, bsd_output_key, call_target, call_arg,
                   call_record, call_pc, call_result, wer_compute_calls>>
    /\ UNCHANGED <<aggVars, recVars, saveVars, genVars, werVars, detVars,
                   eoVars, valVars, gpVars, permVars>>

\* transform(record) of the WER built; the external metric returns any scalar.
WerCall ==
    /\ call_target = "WER"
    /\ call_pc = "call"
    /\ wer.status = "ok"
    /\ \E wer_metric \in WerMetrics :
         LET out == WER_call(wer, call_record, wer_metric)
         IN  /\ call_result' = out
             /\ call_record' = out.record
             /\ wer_compute_calls' = wer_compute_calls \o out.compute_calls
    /\ call_pc' = "done"
    /\ UNCHANGED <<bert_score_keys, bsd_output_key, bsd, call_target, call_arg>>
    /\ UNCHANGED <<aggVars, recVars, saveVars, genVars, werVars, detVars,
                   eoVars, valVars, gpVars, permVars>>

\* transform(record) of the BertScoreDissimilarity built.
BsdCall ==
    /\ call_target = "BSD"
    /\ call_pc = "call"
    /\ bsd.status = "ok"
    /\ LET out == BSD_call(bsd, call_record)
       IN  /\ call_result' = out
           /\ call_record' = out.record
           /\ wer_compute_calls' = wer_compute_calls \o out.compute_calls
    /\ call_pc' = "done"
    /\ UNCHANGED <<bert_score_keys, bsd_output_key, bsd, call_target, call_arg>>
    /\ UNCHANGED <<aggVars, recVars, saveVars, genVars, werVars, detVars,
                   eoVars, valVars, gpVars, permVars>>

NextCall == WerInit \/ BsdInit \/ WerCall \/ BsdCall

SpecCall == InitCall /\ [][NextCall]_vars

(***************************************************************************)
(* SpecDet: one call of verify_model_determinism                           *)
(***************************************************************************)
Prompts == {"q1", "q2"}
\* What model.predict may return as its output: the model is a black box,
\* any call may return any of them.
ModelOutputs == {"x", "y"}

InitDet ==
    /\ AggIdle
    /\ RecIdle
    /\ SaveIdle
    /\ GenIdle
    /\ WerIdle
    /\ CallIdle
    /\ EoIdle
    /\ ValIdle
    /\ GpIdle
    /\ PermIdle
    /\ det_prompts \in SeqsUpTo(Prompts, MaxDetRows)
    /\ num_rows_deterministic \in 1..MaxSample
    /\ det_pc = "call"
    /\ det_iter = <<>>
    /\ original_model_output = ""
    /\ predict_calls = <<>>
    /\ det_result = "none"

\* dataset.limit(NUM_ROWS_DETERMINISTIC).iter_rows()
DetIterRows ==
    /\ det_pc = "call"
    /\ det_iter' = Limit(det_prompts, num_rows_deterministic)
    /\ det_pc' = "loop"
    /\ UNCHANGED <<det_prompts, num_rows_deterministic, original_model_output,
                   predict_calls, det_result>>
    /\ UNCHANGED <<aggVars, recVars, saveVars, genVars, werVars, callVars,
                   eoVars, valVars, gpVars, permVars>>

\* original_model_output = model.predict(original_prompt)[0]
DetFirstPredict ==
    /\ det_pc = "loop"
    /\ det_iter # <<>>
    /\ \E output \in ModelOutputs :
         /\ original_model_output' = output
         /\ predict_calls' = Append(predict_calls, PredictCall(Head(det_iter), output))
    /\ det_pc' = "second"
    /\ UNCHANGED <<det_prompts, num_rows_deterministic, det_iter, det_result>>
    /\ UNCHANGED <<aggVars, recVars, saveVars, genVars, werVars, callVars,
                   eoVars, valVars, gpVars, permVars>>

\* if model.predict(original_prompt)[0] != original_model_output: return False
DetSecondPredict ==
    /\ det_pc = "second"
    /\ \E output \in ModelOutputs :
         /\ predict_calls' = Append(predict_calls, PredictCall(Head(det_iter), output))
         /\ IF Differs(output, original_model_output)
            THEN /\ det_result' = "False"
                 /\ det_pc' = "done"
                 /\ UNCHANGED det_iter
            ELSE /\ det_iter' = Tail(det_iter)
                 /\ det_pc' = "loop"
                 /\ UNCHANGED det_result
    /\ UNCHANGED <<det_prompts, num_rows_deterministic, original_model_output>>
    /\ UNCHANGED <<aggVars, recVars, saveVars, genVars, werVars, callVars,
                   eoVars, valVars, gpVars, permVars>>

\* The loop is over: return True
DetReturnTrue ==
    /\ det_pc = "loop"
    /\ det_iter = <<>>
    /\ det_result' = "True"
    /\ det_pc' = "done"
    /\ UNCHANGED <<det_prompts, num_rows_deterministic, det_iter,
                   original_model_output, predict_calls>>
    /\ UNCHANGED <<aggVars, recVars, saveVars, genVars, werVars, callVars,
                   eoVars, valVars, gpVars, permVars>>

NextDet == DetIterRows \/ DetFirstPredict \/ DetSecondPredict \/ DetReturnTrue

SpecDet == InitDet /\ [][NextDet]_vars

(***************************************************************************)
(* SpecEvalOutput: the construction of one EvalOutput                      *)
(***************************************************************************)
EoScores == {EvalScore(name, Rat(1, 2)) : name \in ScoreColumns}
EoCategoryScores ==
    {CategoryScore("brownie", scores) : scores \in SeqsUpTo(EoScores, MaxEoScores)}
Optional(S) == {PyNone} \cup {Some(v) : v \in S}

InitEvalOutput ==
    /\ AggIdle
    /\ RecIdle
    /\ SaveIdle
    /\ GenIdle
    /\ WerIdle
    /\ CallIdle
    /\ DetIdle
    /\ ValIdle
    /\ GpIdle
    /\ PermIdle
    /\ eo_dataset_scores \in Optional(SeqsUpTo(EoScores, MaxEoScores))
    /\ eo_category_scores \in Optional(SeqsUpTo(EoCategoryScores, MaxEoCategories))
    /\ eo_error \in Optional({<<"error">>})
    /\ eo_pc = "init"
    /\ eo = NoEvalOutput
    /\ eq_kind = ""
    /\ eq_a = <<>>
    /\ eq_b = <<>>
    /\ eq_pc = "idle"
    /\ eq_result = "none"

EoConstruct ==
    /\ eo_pc = "init"
    /\ eo' = EvalOutput_init("toxicity", "dataset1", eo_dataset_scores,
                             eo_category_scores, eo_error)
    /\ eo_pc' = "done"
    /\ UNCHANGED <<eo_dataset_scores, eo_category_scores, eo_error,
                   eq_kind, eq_a, eq_b, eq_pc, eq_result>>
    /\ UNCHANGED <<aggVars, recVars, saveVars, genVars, werVars, callVars,
                   detVars, valVars, gpVars, permVars>>

NextEvalOutput == EoConstruct

SpecEvalOutput == InitEvalOutput /\ [][NextEvalOutput]_vars

(***************************************************************************)
(* SpecEq: one comparison a == b of CategoryScores or of EvalOutputs       *)
(***************************************************************************)
EqScores ==
    {EvalScore("s1", Rat(0, 1)), EvalScore("s1", ONE), EvalScore("s2", Rat(0, 1))}
EqCategoryScores ==
    {CategoryScore(name, scores) :
        name \in Categories, scores \in SeqsUpTo(EqScores, MaxEqScores)}

\* The CategoryScores of the EvalOutputs compared: each has the score names
\* of EqDatasetScores.
EqDatasetScores == <<EvalScore("s1", Rat(0, 1)), EvalScore("s2", Rat(0, 1))>>
EqCategoryPool ==
    {CategoryScore("brownie", EqDatasetScores),
     CategoryScore("brownie", <<EvalScore("s2", Rat(0, 1)), EvalScore("s1", Rat(0, 1))>>),
     CategoryScore("brownie", <<EvalScore("s1", ONE), EvalScore("s2", Rat(0, 1))>>),
     CategoryScore("vanilla cake", <<EvalScore("s1", ONE), EvalScore("s2", Rat(0, 1))>>)}
EqEvalOutputs ==
    {EvalOutput_init("toxicity", dataset_name, Some(EqDatasetScores),
                     Some(category_scores), PyNone) :
        dataset_name \in {"dataset1", "dataset2"},
        category_scores \in UNION {Orderings(S) : S \in SUBSET EqCategoryPool}}

InitEq ==
    /\ AggIdle
    /\ RecIdle
    /\ SaveIdle
    /\ GenIdle
    /\ WerIdle
    /\ CallIdle
    /\ DetIdle
    /\ ValIdle
    /\ GpIdle
    /\ PermIdle
    /\ eo_dataset_scores = PyNone
    /\ eo_category_scores = PyNone
    /\ eo_error = PyNone
    /\ eo_pc = "idle"
    /\ eo = NoEvalOutput
    /\ eq_kind \in {"CategoryScore", "EvalOutput"}
    /\ IF eq_kind = "CategoryScore"
       THEN eq_a \in EqCategoryScores /\ eq_b \in EqCategoryScores
       ELSE eq_a \in EqEvalOutputs /\ eq_b \in EqEvalOutputs
    /\ eq_pc = "compare"
    /\ eq_result = "none"

CompareCategoryScores ==
    /\ eq_kind = "CategoryScore"
    /\ eq_pc = "compare"
    /\ eq_result' = PyBool(CategoryScore_eq(eq_a, eq_b))
    /\ eq_pc' = "done"
    /\ UNCHANGED <<eo_dataset_scores, eo_category_scores, eo_error, eo_pc, eo,
                   eq_kind, eq_a, eq_b>>
    /\ UNCHANGED <<aggVars, recVars, saveVars, genVars, werVars, callVars,
                   detVars, valVars, gpVars, permVars>>

CompareEvalOutputs ==
    /\ eq_kind = "EvalOutput"
    /\ eq_pc = "compare"
    /\ eq_result' = PyBool(EvalOutput_eq(eq_a, eq_b))
    /\ eq_pc' = "done"
    /\ UNCHANGED <<eo_dataset_scores, eo_category_scores, eo_error, eo_pc, eo,
                   eq_kind, eq_a, eq_b>>
    /\ UNCHANGED <<aggVars, recVars, saveVars, genVars, werVars, callVars,
                   detVars, valVars, gpVars, permVars>>

NextEq == CompareCategoryScores \/ CompareEvalOutputs

SpecEq == InitEq /\ [][NextEq]_vars

(***************************************************************************)
(* SpecValidate: one call of validate_dataset                              *)
(***************************************************************************)
ValColumns == {"model_input", "target_output", "category"}

InitValidate ==
    /\ AggIdle
    /\ RecIdle
    /\ SaveIdle
    /\ GenIdle
    /\ WerIdle
    /\ CallIdle
    /\ DetIdle
    /\ EoIdle
    /\ GpIdle
    /\ PermIdle
    /\ val_columns \in SUBSET ValColumns
    /\ val_column_names \in SeqsUpTo(ValColumns, MaxColumnNames)
    /\ val_pc = "call"
    /\ val_result = NoValidation

Validate ==
    /\ val_pc = "call"
    /\ val_result' = validate_dataset(val_columns, val_column_names)
    /\ val_pc' = "done"
    /\ UNCHANGED <<val_columns, val_column_names>>
    /\ UNCHANGED <<aggVars, recVars, saveVars, genVars, werVars, callVars,
                   detVars, eoVars, gpVars, permVars>>

NextValidate == Validate

SpecValidate == InitValidate /\ [][NextValidate]_vars

(***************************************************************************)
(* SpecMap: one call of generate_model_predict_response_for_dataset or of  *)
(* generate_prompt_column_for_dataset.  The engine maps the rows one at a  *)
(* time, in any order; for the model call each row is handled by any actor *)
(* of the pool that has been initialized.                                  *)
(***************************************************************************)
MapInputs == {Str("q1"), Str("q2")}

\* The columns a dataset has beside model_input, with the value every row
\* holds there.
MapOtherColumns ==
    { <<>>,
      <<[key |-> "target_output", value |-> Str("t")]>>,
      <<[key |-> "model_output", value |-> Str("old")]>> }

MapDatasets ==
    { [i \in 1..Len(inputs) |-> <<[key |-> MODEL_INPUT, value |-> inputs[i]]>> \o other] :
        inputs \in SeqsUpTo(MapInputs, MaxMapRows), other \in MapOtherColumns }

InitMap ==
    /\ AggIdle
    /\ RecIdle
    /\ SaveIdle
    /\ GenIdle
    /\ WerIdle
    /\ CallIdle
    /\ DetIdle
    /\ EoIdle
    /\ ValIdle
    /\ PermIdle
    /\ gp_rows \in MapDatasets
    /\ gp_failing \in {{}, {Str("q2")}}
    /\ \/ /\ gp_kind = "predict"
          /\ gp_output_col \in {"", "model_output"}
          /\ gp_log_prob_col \in {"", "model_log_probability"}
          /\ gp_num_actors \in 1..MaxActors
          /\ gp_actors = [w \in 1..gp_num_actors |-> NoWrapper]
       \/ /\ gp_kind = "prompt"
          /\ gp_output_col = ""
          /\ gp_log_prob_col = ""
          /\ gp_num_actors = 1
          /\ gp_actors = <<>>
    /\ gp_mapped = [i \in 1..Len(gp_rows) |-> NotMapped]
    /\ gp_calls = [i \in 1..Len(gp_rows) |-> <<>>]
    /\ gp_pc = "map"
    /\ gp_result = <<>>

MapOthersUnchanged ==
    UNCHANGED <<aggVars, recVars, saveVars, genVars, werVars, callVars,
                   detVars, eoVars, valVars, permVars>>

\* The engine starts actor w of the pool: ModelRunnerWrapper() is constructed.
ActorInit(w) ==
    /\ gp_pc = "map"
    /\ gp_kind = "predict"
    /\ ~gp_actors[w].initialized
    /\ gp_actors' = [gp_actors EXCEPT ![w] = ModelRunnerWrapper_init(@)]
    /\ UNCHANGED <<gp_kind, gp_rows, gp_output_col, gp_log_prob_col, gp_failing,
                   gp_num_actors, gp_mapped, gp_calls, gp_pc, gp_result>>
    /\ MapOthersUnchanged

\* Actor w handles row i: ModelRunnerWrapper.__call__(row).
MapRowPredict(w, i) ==
    /\ gp_pc = "map"
    /\ gp_kind = "predict"
    /\ gp_actors[w].initialized
    /\ gp_mapped[i].status = "none"
    /\ LET out == ModelRunnerWrapper_call(gp_rows[i], MODEL_INPUT, gp_output_col,
                                          gp_log_prob_col, gp_failing, w)
       IN  /\ gp_mapped' = [gp_mapped EXCEPT ![i] = out]
           /\ gp_pc' = IF out.status = "raised" THEN "raised" ELSE "map"
    /\ gp_calls' = [gp_calls EXCEPT
                       ![i] = Append(@, [actor |-> w,
                                        prompt |-> Get(gp_rows[i], MODEL_INPUT)])]
    /\ gp_actors' = [gp_actors EXCEPT ![w] = WrapperAfterCall(@)]
    /\ UNCHANGED <<gp_kind, gp_rows, gp_output_col, gp_log_prob_col, gp_failing,
                   gp_num_actors, gp_result>>
    /\ MapOthersUnchanged

\* A task handles row i: _generate_prompt_column(row).
MapRowPrompt(i) ==
    /\ gp_pc = "map"
    /\ gp_kind = "prompt"
    /\ gp_mapped[i].status = "none"
    /\ LET out == generate_prompt_column(gp_rows[i], MODEL_INPUT, PROMPT, gp_failing)
       IN  /\ gp_mapped' = [gp_mapped EXCEPT ![i] = out]
           /\ gp_pc' = IF out.status = "raised" THEN "raised" ELSE "map"
    /\ UNCHANGED <<gp_kind, gp_rows, gp_output_col, gp_log_prob_col, gp_failing,
                   gp_num_actors, gp_actors, gp_calls, gp_result>>
    /\ MapOthersUnchanged

\* materialize() ends and the function returns the dataset: every row has
\* been mapped and the pool has started all its actors.
MapMaterialize ==
    /\ gp_pc = "map"
    /\ \A i \in 1..Len(gp_rows) : gp_mapped[i].status = "ok"
    /\ \A w \in 1..Len(gp_actors) : gp_actors[w].initialized
    /\ gp_result' = MapResult(gp_mapped, gp_num_actors)
    /\ gp_pc' = "done"
    /\ UNCHANGED <<gp_kind, gp_rows, gp_output_col, gp_log_prob_col, gp_failing,
                   gp_num_actors, gp_actors, gp_mapped, gp_calls>>
    /\ MapOthersUnchanged

NextMap ==
    \/ \E w \in 1..Len(gp_actors) : ActorInit(w)
    \/ \E w \in 1..Len(gp_actors), i \in 1..Len(gp_rows) : MapRowPredict(w, i)
    \/ \E i \in 1..Len(gp_rows) : MapRowPrompt(i)
    \/ MapMaterialize

SpecMap == InitMap /\ [][NextMap]_vars

(***************************************************************************)
(* SpecPermute: aggregate_evaluation_scores is called on a dataset and on  *)
(* a dataset with the same rows in another order.  The score values are    *)
(* chosen so that a float addition may round.                              *)
(***************************************************************************)
PermScoreValues == {1, 3, 8}
PermRowsWithCategory == [category : Categories, s1 : PermScoreValues, s2 : {0}]
PermRowsWithoutCategory == [s1 : PermScoreValues, s2 : {0}]
PermScoreNameLists == {<<"s2", "s1">>}

\* The datasets that hold the rows of `rows`, each once, in any order.
Reorderings(rows) ==
    {[i \in 1..Len(rows) |-> rows[o[i]]] : o \in Orderings(1..Len(rows))}

InitPermute ==
    /\ RecIdle
    /\ SaveIdle
    /\ GenIdle
    /\ WerIdle
    /\ CallIdle
    /\ DetIdle
    /\ EoIdle
    /\ ValIdle
    /\ GpIdle
    /\ \/ /\ columns = ScoreColumns \cup {CATEGORY}
          /\ dataset \in SeqsUpTo(PermRowsWithCategory, MaxPermRows)
       \/ /\ columns = ScoreColumns
          /\ dataset \in SeqsUpTo(PermRowsWithoutCategory, MaxPermRows)
    /\ score_column_names \in PermScoreNameLists
    /\ agg_method = MEAN
    /\ agg_pc = "call"
    /\ agg_result = NoResult
    /\ perm_dataset \in Reorderings(dataset)
    /\ perm_result = NoResult

\* The call on the reordered dataset, after the call on the dataset.
AggregatePermuted ==
    /\ agg_pc = "done"
    /\ perm_result.status = "none"
    /\ \E unique_order \in Orderings(IF CATEGORY \in columns
                                     THEN DatasetUnique(perm_dataset, CATEGORY) ELSE {}) :
       \E group_order \in Orderings(IF CATEGORY \in columns
                                    THEN DatasetUnique(perm_dataset, CATEGORY) ELSE {}) :
          perm_result' = aggregate_evaluation_scores(
                             perm_dataset, columns, score_column_names, agg_method,
                             unique_order, group_order)
    /\ UNCHANGED perm_dataset
    /\ UNCHANGED <<aggVars, recVars, saveVars, genVars, werVars, callVars,
                   detVars, eoVars, valVars, gpVars>>

NextPermute == Aggregate \/ AggregatePermuted

SpecPermute == InitPermute /\ [][NextPermute]_vars

(***************************************************************************)
(* Claims about aggregate_evaluation_scores (checked under SpecAgg)        *)
(***************************************************************************)
AggReturned == agg_pc = "done" /\ agg_result.status = "ok"

\* The indices of the rows of the dataset whose category is c.
RowsOfCategory(c) == {i \in 1..Len(dataset) : dataset[i][CATEGORY] = c}

\* The sum of column col over the rows with an index in S.
RECURSIVE IndexSum(_, _)
IndexSum(col, S) ==
    IF S = {} THEN 0
    ELSE LET i == CHOOSE j \in S : TRUE IN dataset[i][col] + IndexSum(col, S \ {i})

\* The float v is the mean of column col over the rows with an index in S.
IsMeanOver(v, col, S) ==
    /\ S # {}
    /\ v.den > 0
    /\ v.num * Cardinality(S) = v.den * IndexSum(col, S)

\* The CategoryScores of the result (none when the result holds None).
ReturnedCategoryScores ==
    IF agg_result.category_scores.some THEN agg_result.category_scores.val ELSE <<>>

C2_OneCategoryScorePerCategory ==
    (AggReturned /\ CATEGORY \in columns) =>
        LET cs == ReturnedCategoryScores IN
        /\ {cs[i].name : i \in 1..Len(cs)} = DatasetUnique(dataset, CATEGORY)
        /\ \A i, j \in 1..Len(cs) : cs[i].name = cs[j].name => i = j
        /\ \A i \in 1..Len(cs) :
              /\ Len(cs[i].scores) = Len(agg_result.dataset_scores)
              /\ \A k \in 1..Len(cs[i].scores) :
                    cs[i].scores[k].name = agg_result.dataset_scores[k].name

C2_Witness ==
    /\ AggReturned
    /\ CATEGORY \in columns
    /\ Len(dataset) = 3
    /\ DatasetUnique(dataset, CATEGORY) = Categories
    /\ score_column_names = <<"s1", "s2">>
    /\ Len(ReturnedCategoryScores) = 2
    /\ ReturnedCategoryScores[1].name = "vanilla cake"

\* C3: in category-level aggregation every row is attributed to exactly one
\* category group (the group sizes sum to the row count), and every reported
\* value is the mean of its column over exactly the rows of its category.
C3_CategoryMeansOverOwnRows ==
    (AggReturned /\ CATEGORY \in columns) =>
        LET cs == ReturnedCategoryScores
            RECURSIVE SizeSum(_)
            SizeSum(n) ==
                IF n = 0 THEN 0
                ELSE Cardinality(RowsOfCategory(cs[n].name)) + SizeSum(n - 1)
        IN
        /\ \A r \in 1..Len(dataset) :
              Cardinality({i \in 1..Len(cs) : r \in RowsOfCategory(cs[i].name)}) = 1
        /\ SizeSum(Len(cs)) = Len(dataset)
        /\ \A i \in 1..Len(cs) : \A k \in 1..Len(cs[i].scores) :
              IsMeanOver(cs[i].scores[k].value, cs[i].scores[k].name,
                         RowsOfCategory(cs[i].name))

C3_Witness ==
    /\ AggReturned
    /\ CATEGORY \in columns
    /\ Len(dataset) = 3
    /\ score_column_names = <<"s1">>
    /\ agg_result.dataset_scores[1].value = [num |-> 2, den |-> 3]
    /\ \E i, j \in 1..Len(ReturnedCategoryScores) :
          /\ ReturnedCategoryScores[i].scores[1].value = [num |-> 1, den |-> 2]
          /\ ReturnedCategoryScores[j].scores[1].value = [num |-> 1, den |-> 1]

(***************************************************************************)
(* Claims about EvalOutputRecord (checked under SpecRecord)                *)
(***************************************************************************)
FromRowDone == rec_pc \in {"to_dict", "done"}
FromRowReturned == FromRowDone /\ record.status = "ok"

\* The number of EvalScores of the record named k.
ScoresNamed(k) == {i \in 1..Len(record.scores) : record.scores[i].name = k}

\* C4: from_row partitions the keys of the row: a key in score_names becomes
\* exactly one EvalScore (name = key, value = the row's value) and no dataset
\* column; a key not in score_names becomes a dataset_columns entry if and
\* only if it is in the allow-list; every other key appears nowhere in the
\* record.  from_row returns unless a score column holds a non-number.
C4_FromRowPartitionsKeys ==
    FromRowDone =>
        /\ record.status = "ok" <=>
              \A k \in Keys(row) : k \in Range(score_names) => IsNumber(Get(row, k))
        /\ record.status = "ok" =>
              /\ \A k \in Keys(row) :
                    IF k \in Range(score_names)
                    THEN /\ Cardinality(ScoresNamed(k)) = 1
                         /\ \A i \in ScoresNamed(k) : record.scores[i].value = Get(row, k)
                         /\ k \notin Keys(record.dataset_columns)
                    ELSE /\ ScoresNamed(k) = {}
                         /\ k \in Keys(record.dataset_columns) <=> k \in Range(DATASET_COLUMNS)
                         /\ k \in Keys(record.dataset_columns) =>
                               Get(record.dataset_columns, k) = Get(row, k)
              /\ \A i \in 1..Len(record.scores) : record.scores[i].name \in Keys(row)
              /\ Keys(record.dataset_columns) \subseteq Keys(row)
              /\ \A i, j \in 1..Len(record.dataset_columns) :
                    record.dataset_columns[i].key = record.dataset_columns[j].key => i = j

C4_Witness ==
    /\ FromRowReturned
    /\ score_names = <<"rouge", "bert_score">>
    /\ Keys(row) = {"model_input", "aux", "rouge"}
    /\ record.dataset_columns = <<[key |-> "model_input", value |-> Str("hello")]>>
    /\ record.scores = <<EvalScore("rouge", Num("0.5"))>>

\* The position of an allow-listed column in the allow-list.
CanonicalPosition(k) == CHOOSE i \in 1..Len(DATASET_COLUMNS) : DATASET_COLUMNS[i] = k

\* The score columns of the row, as the row lists them.
RowScoreItems == SelectSeq(row, LAMBDA item : item.key \in Range(score_names))

\* C5: the serialized record lists the recognized non-score columns present
\* in the row in allow-list order whatever their order in the row, holds no
\* unrecognized column, and ends with "scores", always present, whose entries
\* (name and value) are in the order the scores appear in the row.
C5_SerializedOrder ==
    (rec_pc = "done" /\ record.status = "ok") =>
        LET n == Len(json_obj) IN
        /\ n >= 1
        /\ json_obj[n].key = "scores"
        /\ \A i \in 1..(n - 1) :
              /\ json_obj[i].key \in Range(DATASET_COLUMNS)
              /\ json_obj[i].value = Get(row, json_obj[i].key)
        /\ {json_obj[i].key : i \in 1..(n - 1)} =
              {k \in Keys(row) : k \notin Range(score_names) /\ k \in Range(DATASET_COLUMNS)}
        /\ \A i, j \in 1..(n - 1) :
              i < j => CanonicalPosition(json_obj[i].key) < CanonicalPosition(json_obj[j].key)
        /\ json_obj[n].value.type = "list"
        /\ Len(json_obj[n].value.items) = Len(RowScoreItems)
        /\ \A i \in 1..Len(RowScoreItems) :
              json_obj[n].value.items[i] =
                  [name |-> RowScoreItems[i].key, value |-> RowScoreItems[i].value]

C5_Witness ==
    /\ rec_pc = "done"
    /\ record.status = "ok"
    /\ score_names = <<"rouge", "bert_score">>
    /\ row = <<[key |-> "category", value |-> Str("hello")],
               [key |-> "bert_score", value |-> Num("0.5")],
               [key |-> "model_input", value |-> Str("hello")]>>
    /\ Len(json_obj) = 3
    /\ json_obj[1].key = "model_input"
    /\ json_obj[2].key = "category"

\* A record without scores still serializes a "scores" array, an empty one.
C5_WitnessNoScores ==
    /\ rec_pc = "done"
    /\ record.status = "ok"
    /\ Len(row) = 2
    /\ json_obj = <<[key |-> "scores", value |-> [type |-> "list", items |-> <<>>]]>>

(***************************************************************************)
(* Claims about save_dataset (checked under SpecSave)                      *)
(***************************************************************************)
SaveDone == save_pc = "done"

\* The lines of the file, in file order.
FileLines == SelectSeq(fh, LAMBDA piece : ~piece.newline)

\* C6: save_dataset materializes before it iterates and iterates the
\* materialized rows, so the k-th line of the file is the record of the k-th
\* row of the dataset and the file has exactly one line per row.
C6_LinesInRowOrder ==
    SaveDone =>
        /\ Len(FileLines) = Len(save_rows)
        /\ \A k \in 1..Len(save_rows) :
              FileLines[k] = RecordStr(from_row(save_rows[k], save_score_names))

\* C7: batching has no effect on the output: the file written is the one any
\* other positive batch size writes, batch size 1 (one record at a time)
\* included.
C7_BatchSizeHasNoEffect ==
    SaveDone =>
        \A b \in 1..MaxBatch :
            fh = WriteLoop([records |-> <<>>, fh |-> <<>>], FileLines, b)

\* The pieces of p before its first "/" (all of p when it has none).
RECURSIVE FirstComponent(_)
FirstComponent(p) ==
    IF p = <<>> \/ Head(p) = SEP THEN <<>> ELSE <<Head(p)>> \o FirstComponent(Tail(p))

\* The components of the path p: its non-empty parts between "/"s.
RECURSIVE Components(_)
Components(p) ==
    IF p = <<>> THEN <<>>
    ELSE IF Head(p) = SEP THEN Components(Tail(p))
    ELSE <<FirstComponent(p)>>
             \o Components(SubSeq(p, Len(FirstComponent(p)) + 1, Len(p)))

\* The file a path names: from the root or from the working directory,
\* through which directories, under which name.
Location(p) ==
    LET parts == Components(p) IN
    [absolute |-> p # <<>> /\ p[1] = SEP,
     dirs     |-> SubSeq(parts, 1, Len(parts) - 1),
     name     |-> parts[Len(parts)]]

\* A file name with its extension, if it has one, replaced by .jsonl.
NormalizedName(name) ==
    LET dots == {i \in 2..Len(name) :
                    name[i] = DOT /\ \E j \in 1..(i - 1) : name[j] # DOT} IN
    IF dots = {}
    THEN name \o <<DOT, "jsonl">>
    ELSE LET last == CHOOSE i \in dots : \A j \in dots : j <= i IN
         SubSeq(name, 1, last - 1) \o <<DOT, "jsonl">>

\* C8: for every supplied path, save_dataset writes to the file in the
\* supplied path's own directory whose name is the supplied file name with its
\* extension normalized to .jsonl.
C8_WritesBesideSuppliedPath ==
    save_pc \in {"iterate", "done"} =>
        Location(full_path) =
            [absolute |-> Location(path).absolute,
             dirs     |-> Location(path).dirs,
             name     |-> NormalizedName(Location(path).name)]

(***************************************************************************)
(* Claims about generate_output_dataset_path (checked under SpecGen)       *)
(***************************************************************************)
\* C9: every call returns "<dir>/<eval_name>_<dataset_name>.jsonl", and
\* under one directory distinct (eval_name, dataset_name) pairs get distinct
\* paths.
C9_PathFormatAndUniqueness ==
    /\ \A i \in 1..Len(gen_calls) :
          gen_calls[i].result =
              gen_dir \o <<SEP>> \o gen_calls[i].eval_name \o <<"_">>
                  \o gen_calls[i].dataset_name \o <<DOT, "jsonl">>
    /\ \A i, j \in 1..Len(gen_calls) :
          (gen_calls[i].eval_name # gen_calls[j].eval_name
              \/ gen_calls[i].dataset_name # gen_calls[j].dataset_name)
          => gen_calls[i].result # gen_calls[j].result

\* The second half of C9 alone: distinct pairs, distinct paths.
C9_UniquePaths ==
    \A i, j \in 1..Len(gen_calls) :
        (gen_calls[i].eval_name # gen_calls[j].eval_name
            \/ gen_calls[i].dataset_name # gen_calls[j].dataset_name)
        => gen_calls[i].result # gen_calls[j].result

(***************************************************************************)
(* Claims about WER.__init__ (checked under SpecWER)                       *)
(***************************************************************************)
\* The int a sequence of decimal digits denotes.
DigitValue(c) == (CHOOSE i \in 1..10 : DIGITS[i] = c) - 1
RECURSIVE ParseDecimal(_)
ParseDecimal(digits) ==
    IF digits = <<>> THEN 0
    ELSE 10 * ParseDecimal(SubSeq(digits, 1, Len(digits) - 1))
             + DigitValue(digits[Len(digits)])

\* The message reads "... prediction_keys has <m> elements while
\* reference_keys has <n> elements."
MessageStates(message, m, n) ==
    \E i \in 3..(Len(message) - 2) :
        /\ message[1] = WER_MESSAGE_HEAD
        /\ message[2] = "prediction_keys has "
        /\ ParseDecimal(SubSeq(message, 3, i - 1)) = m
        /\ message[i] = " elements while reference_keys has "
        /\ ParseDecimal(SubSeq(message, i + 1, Len(message) - 1)) = n
        /\ message[Len(message)] = " elements."
        /\ i > 3 /\ Len(message) - 1 > i

\* C10: constructing WER fails with EvalAlgorithmClientError if and only if
\* prediction_keys and reference_keys differ in length; the message states
\* both lengths, and no instance is produced; otherwise the instance holds
\* the keys it was given.
C10_WerInitValidation ==
    wer_pc = "done" =>
        /\ wer.status = "EvalAlgorithmClientError" <=>
              Len(prediction_keys) # Len(reference_keys)
        /\ wer.status \in {"EvalAlgorithmClientError", "ok"}
        /\ wer.status = "EvalAlgorithmClientError" =>
              /\ MessageStates(wer.message, Len(prediction_keys), Len(reference_keys))
              /\ wer.prediction_keys = <<>> /\ wer.reference_keys = <<>>
              /\ wer.input_keys = <<>> /\ wer.output_keys = <<>>
        /\ wer.status = "ok" =>
              /\ wer.prediction_keys = prediction_keys
              /\ wer.reference_keys = reference_keys
              /\ wer.output_key = output_key

C10_Witness ==
    /\ wer_pc = "done"
    /\ prediction_keys = <<"p1", "p2">>
    /\ reference_keys = <<"r1", "r2", "r1">>
    /\ wer.status = "EvalAlgorithmClientError"
    /\ wer.message = <<WER_MESSAGE_HEAD, "prediction_keys has ", "2",
                       " elements while reference_keys has ", "3", " elements.">>

(***************************************************************************)
(* Claims about calling a transform (checked under SpecCall)               *)
(***************************************************************************)
CallDone(target) == call_target = target /\ call_pc = "done"

\* The input keys the transform called was declared with, in order.
DeclaredInputKeys ==
    IF call_target = "WER" THEN prediction_keys \o reference_keys
    ELSE bert_score_keys

\* The output key the transform called was declared with.
DeclaredOutputKey == IF call_target = "WER" THEN output_key ELSE bsd_output_key

\* C11: calling a WER transform on a record that holds its keys invokes the
\* external metric exactly once, with predictions the record's values at
\* prediction_keys in that order and references its values at
\* reference_keys in that order, and leaves the scalar the metric returned,
\* as it is, under the output key.
C11_WerCallDelegates ==
    (CallDone("WER") /\ Range(DeclaredInputKeys) \subseteq Keys(call_arg)) =>
        /\ call_result.status = "ok"
        /\ Len(wer_compute_calls) = 1
        /\ Len(wer_compute_calls[1].predictions) = Len(prediction_keys)
        /\ \A i \in 1..Len(prediction_keys) :
              wer_compute_calls[1].predictions[i] = Get(call_arg, prediction_keys[i])
        /\ Len(wer_compute_calls[1].references) = Len(reference_keys)
        /\ \A i \in 1..Len(reference_keys) :
              wer_compute_calls[1].references[i] = Get(call_arg, reference_keys[i])
        /\ output_key \in Keys(call_record)
        /\ Get(call_record, output_key) = wer_compute_calls[1].result
        /\ wer_compute_calls[1].result \in WerMetrics

C11_Witness ==
    /\ CallDone("WER")
    /\ prediction_keys = <<"p2", "p1">>
    /\ reference_keys = <<"r1", "r2">>
    /\ call_result.status = "ok"
    /\ wer_compute_calls =
          << ComputeCall(<<Str("b"), Str("a")>>, <<Str("a"), Str("a")>>,
                         Rat(123, 1000)) >>
    /\ Get(call_record, "wer") = Rat(123, 1000)

\* C12: a call of BertScoreDissimilarity with K >= 1 keys on a record that
\* holds them leaves 1 - (the sum of the K values) / K under the output key,
\* whatever the range of the values (nothing is clamped); the mean that was
\* under the output key on the way is replaced.
C12_BsdIsOneMinusMean ==
    (/\ CallDone("BSD")
     /\ Len(bert_score_keys) >= 1
     /\ Range(bert_score_keys) \subseteq Keys(call_arg)) =>
        /\ call_result.status = "ok"
        /\ bsd_output_key \in Keys(call_record)
        /\ LET K == Len(bert_score_keys)
               total == RatSum(ValuesAt(call_arg, bert_score_keys))
               out == Get(call_record, bsd_output_key)
           IN  \* out = 1 - total / K, cross-multiplied
               /\ out.den > 0
               /\ (out.den - out.num) * total.den * K = total.num * out.den

C12_Witness ==
    /\ CallDone("BSD")
    /\ bert_score_keys = <<"a", "b">>
    /\ Keys(call_arg) = {"a", "b"}
    /\ Get(call_arg, "a") = Rat(3, 2)
    /\ Get(call_arg, "b") = Rat(1, 10)
    /\ call_result.status = "ok"
    /\ Get(call_record, bsd_output_key) = [num |-> 1, den |-> 5]

\* A value of 1 - mean below 0 is left as it is.
C12_WitnessOutOfRange ==
    /\ CallDone("BSD")
    /\ call_result.status = "ok"
    /\ Get(call_record, bsd_output_key).num < 0

\* C13: a call of a WER or BertScoreDissimilarity transform that succeeds
\* adds or overwrites its declared output key and nothing else: the record
\* returned has the keys it had plus the output key, and every other key
\* keeps its value.
C13_OnlyOutputKeyWritten ==
    (call_pc = "done" /\ call_result.status = "ok") =>
        /\ call_result.record = call_record
        /\ Keys(call_record) = Keys(call_arg) \cup {DeclaredOutputKey}
        /\ Len(call_record) = Cardinality(Keys(call_record))
        /\ \A k \in Keys(call_arg) \ {DeclaredOutputKey} :
              Get(call_record, k) = Get(call_arg, k)

\* The output key is overwritten, and a key the transform does not declare
\* is in the record.
C13_Witness ==
    /\ CallDone("WER")
    /\ call_result.status = "ok"
    /\ prediction_keys = <<"p1">>
    /\ Keys(call_arg) = {"p1", "p2", "r1", "r2", "wer"}
    /\ Get(call_arg, "wer") # Get(call_record, "wer")

C13_WitnessBsd ==
    /\ CallDone("BSD")
    /\ call_result.status = "ok"
    /\ bert_score_keys = <<"a">>
    /\ bsd_output_key = "a"
    /\ Keys(call_arg) = {"a", "b", "bsd"}

\* C14: a call on a record that lacks a declared input key fails with a
\* MissingKey error for a key that is missing, the external metric is not
\* invoked, and the record is as it was.
C14_MissingKeyLeavesRecord ==
    (call_pc = "done" /\ ~(Range(DeclaredInputKeys) \subseteq Keys(call_arg))) =>
        /\ call_result.status = "MissingKey"
        /\ call_result.key \in Range(DeclaredInputKeys) \ Keys(call_arg)
        /\ wer_compute_calls = <<>>
        /\ call_record = call_arg

C14_Witness ==
    /\ CallDone("WER")
    /\ prediction_keys = <<"p1", "p2">>
    /\ Keys(call_arg) = {"p1", "r1", "r2", "wer"}
    /\ call_result.status = "MissingKey"
    /\ call_result.key = "p2"

C14_WitnessBsd ==
    /\ CallDone("BSD")
    /\ bert_score_keys = <<"b", "a">>
    /\ Keys(call_arg) = {"b"}
    /\ call_result.status = "MissingKey"

(***************************************************************************)
(* Claims about verify_model_determinism (checked under SpecDet)           *)
(***************************************************************************)
\* The number of rows the call may examine.
SampleSize ==
    IF num_rows_deterministic < Len(det_prompts)
    THEN num_rows_deterministic ELSE Len(det_prompts)

\* The rows for which both calls of predict were made.
ExaminedRows == 1..(Len(predict_calls) \div 2)

\* The two calls made for the i-th row returned the same output.
SameOutput(i) == predict_calls[2 * i - 1].output = predict_calls[2 * i].output

\* C15: verify_model_determinism examines rows among the first
\* NUM_ROWS_DETERMINISTIC of the dataset only; it returns True if and only if
\* it examined every one of them and for each the two calls of predict
\* returned the same output, and False if and only if the last row it
\* examined gave two different outputs.
C15_DeterminismOverSample ==
    det_pc = "done" =>
        /\ det_result \in {"True", "False"}
        /\ Len(predict_calls) = 2 * Cardinality(ExaminedRows)
        /\ Cardinality(ExaminedRows) <= SampleSize
        /\ \A i \in ExaminedRows :
              /\ predict_calls[2 * i - 1].prompt = det_prompts[i]
              /\ predict_calls[2 * i].prompt = det_prompts[i]
        /\ det_result = "True" <=>
              /\ ExaminedRows = 1..SampleSize
              /\ \A i \in ExaminedRows : SameOutput(i)
        /\ det_result = "False" <=>
              /\ ExaminedRows # {}
              /\ ~SameOutput(Cardinality(ExaminedRows))

\* True is returned with rows beyond the limit in the dataset.
C15_Witness ==
    /\ det_pc = "done"
    /\ det_result = "True"
    /\ num_rows_deterministic = 2
    /\ Len(det_prompts) = 3
    /\ Len(predict_calls) = 4

C15_WitnessFalse ==
    /\ det_pc = "done"
    /\ det_result = "False"
    /\ num_rows_deterministic = 1
    /\ Len(det_prompts) = 3

\* C16: at every point of the call, the k-th call of predict is made with
\* the prompt of row (k+1) div 2, so the calls come in pairs with the same
\* prompt, in row order; no call follows a pair whose outputs differ; and
\* when the call has returned, predict was called 2*j times if the j-th row
\* is the first whose outputs differ, and twice for every sampled row if
\* there is none.
C16_ShortCircuit ==
    /\ \A k \in 1..Len(predict_calls) :
          /\ (k + 1) \div 2 <= SampleSize
          /\ predict_calls[k].prompt = det_prompts[(k + 1) \div 2]
    /\ \A i \in ExaminedRows : 2 * i < Len(predict_calls) => SameOutput(i)
    /\ det_pc = "done" =>
          IF \E j \in ExaminedRows : ~SameOutput(j)
          THEN /\ det_result = "False"
               /\ Len(predict_calls) =
                     2 * (CHOOSE j \in ExaminedRows :
                             /\ ~SameOutput(j)
                             /\ \A i \in 1..(j - 1) : SameOutput(i))
          ELSE /\ det_result = "True"
               /\ Len(predict_calls) = 2 * SampleSize

\* The second of three sampled rows is the first to differ: the third is
\* not sent to the model.
C16_Witness ==
    /\ det_pc = "done"
    /\ det_result = "False"
    /\ num_rows_deterministic = 3
    /\ Len(det_prompts) = 3
    /\ Len(predict_calls) = 4

C16_WitnessAllSame ==
    /\ det_pc = "done"
    /\ det_result = "True"
    /\ num_rows_deterministic = 3
    /\ Len(predict_calls) = 6

(***************************************************************************)
(* Claims about EvalOutput (checked under SpecEvalOutput)                  *)
(***************************************************************************)
EoDone == eo_pc = "done"

\* C17: an EvalOutput has exactly one of dataset_scores and error non-null:
\* constructing one with both null raises, with both set raises, and with
\* exactly one of them set (and no category_scores, whose check is apart)
\* succeeds and holds the fields given.
C17_ExactlyOneOfScoresAndError ==
    EoDone =>
        /\ (~eo_dataset_scores.some /\ ~eo_error.some) => eo.status = "AssertionError"
        /\ (eo_dataset_scores.some /\ eo_error.some) => eo.status = "AssertionError"
        /\ (eo_dataset_scores.some # eo_error.some /\ ~eo_category_scores.some) =>
              /\ eo.status = "ok"
              /\ eo.dataset_scores = eo_dataset_scores
              /\ eo.error = eo_error
        /\ eo.status = "ok" => (eo.dataset_scores.some # eo.error.some)
        /\ eo.status \in {"ok", "AssertionError"}

\* Both set, with nothing else wrong: the construction raises.
C17_Witness ==
    /\ EoDone
    /\ eo_dataset_scores.some
    /\ Len(eo_dataset_scores.val) = 2
    /\ eo_error.some
    /\ ~eo_category_scores.some
    /\ eo.status = "AssertionError"

C17_WitnessErrorOnly ==
    /\ EoDone
    /\ ~eo_dataset_scores.some
    /\ eo_error.some
    /\ eo.status = "ok"

\* C18: constructing an EvalOutput with dataset_scores and category_scores
\* raises AssertionError if and only if some CategoryScore has a set of score
\* names other than that of dataset_scores, or another number of scores.
C18_CategoryScoresMatchDatasetScores ==
    (/\ EoDone
     /\ eo_dataset_scores.some
     /\ ~eo_error.some
     /\ eo_category_scores.some) =>
        (eo.status = "AssertionError" <=>
            \E i \in 1..Len(eo_category_scores.val) :
                LET category == eo_category_scores.val[i]
                IN  \/ {category.scores[k].name : k \in 1..Len(category.scores)}
                          # {eo_dataset_scores.val[k].name :
                                k \in 1..Len(eo_dataset_scores.val)}
                    \/ Len(category.scores) # Len(eo_dataset_scores.val))

\* As many scores as dataset_scores, under another name.
C18_Witness ==
    /\ EoDone
    /\ ~eo_error.some
    /\ eo_dataset_scores = Some(<<EvalScore("s1", Rat(1, 2)), EvalScore("s2", Rat(1, 2))>>)
    /\ eo_category_scores.some
    /\ Len(eo_category_scores.val) = 2
    /\ eo_category_scores.val[1].scores = eo_dataset_scores.val
    /\ eo_category_scores.val[2].scores =
          <<EvalScore("s1", Rat(1, 2)), EvalScore("s1", Rat(1, 2))>>
    /\ eo.status = "AssertionError"

\* The names of dataset_scores, with fewer scores.
C18_WitnessCount ==
    /\ EoDone
    /\ ~eo_error.some
    /\ eo_dataset_scores = Some(<<EvalScore("s1", Rat(1, 2)), EvalScore("s1", Rat(1, 2))>>)
    /\ eo_category_scores = Some(<<CategoryScore("brownie", <<EvalScore("s1", Rat(1, 2))>>)>>)
    /\ eo.status = "AssertionError"

C18_WitnessOk ==
    /\ EoDone
    /\ eo_category_scores.some
    /\ Len(eo_category_scores.val) = 2
    /\ Len(eo_dataset_scores.val) = 2
    /\ eo.status = "ok"

(***************************************************************************)
(* Claims about equality (checked under SpecEq)                            *)
(***************************************************************************)
\* ys lists the entries of xs in some order.
IsReordering(xs, ys) ==
    /\ Len(xs) = Len(ys)
    /\ \E f \in Orderings(1..Len(xs)) : \A i \in 1..Len(xs) : ys[i] = xs[f[i]]

C19_WitnessDuplicate ==
    /\ eq_pc = "done"
    /\ eq_kind = "CategoryScore"
    /\ eq_a.name = eq_b.name
    /\ eq_a.scores = <<EvalScore("s1", ONE), EvalScore("s2", Rat(0, 1))>>
    /\ eq_b.scores = Append(eq_a.scores, EvalScore("s1", ONE))
    /\ eq_result = "False"

C19_WitnessEvalOutput ==
    /\ eq_pc = "done"
    /\ eq_kind = "EvalOutput"
    /\ eq_a.dataset_name = eq_b.dataset_name
    /\ Len(eq_a.category_scores.val) = 3
    /\ eq_a.category_scores.val # eq_b.category_scores.val
    /\ eq_result = "True"

(***************************************************************************)
(* Claims about the aggregation method (checked under SpecAgg)             *)
(***************************************************************************)
\* C20: a call of aggregate_evaluation_scores with an agg_method other than
\* mean raises EvalAlgorithmInternalError and returns no scores, whatever
\* the dataset and the list score_column_names, with a category column or
\* without.
C20_NonMeanMethodFails ==
    (agg_pc = "done" /\ agg_method # MEAN) =>
        /\ agg_result.status = "EvalAlgorithmInternalError"
        /\ agg_result.dataset_scores = <<>>
        /\ ~agg_result.category_scores.some

\* With at least one score column the call does raise.
C20_NonMeanMethodFailsWithColumns ==
    (agg_pc = "done" /\ agg_method # MEAN /\ score_column_names # <<>>) =>
        /\ agg_result.status = "EvalAlgorithmInternalError"
        /\ agg_result.dataset_scores = <<>>
        /\ ~agg_result.category_scores.some

C20_WitnessWithColumns ==
    /\ agg_pc = "done"
    /\ agg_method # MEAN
    /\ score_column_names = <<"s2", "s1">>
    /\ CATEGORY \in columns
    /\ Len(dataset) = 2
    /\ agg_result.status = "EvalAlgorithmInternalError"

(***************************************************************************)
(* Claims about validate_dataset (checked under SpecValidate)              *)
(***************************************************************************)
\* The positions in column_names of names that are no column of the dataset.
MissingPositions ==
    {i \in 1..Len(val_column_names) : val_column_names[i] \notin val_columns}

\* C21: the step that runs validate_dataset raises EvalAlgorithmClientError
\* if and only if some name of column_names is no column of the dataset; the
\* message is "Missing required column: <name>, for evaluate() method" with
\* the first such name in column_names order; with all present nothing is
\* raised; the columns of the dataset are what they were.
C21_ValidateDataset ==
    [][val_pc = "call" =>
        /\ val_columns' = val_columns
        /\ val_result'.status \in {"ok", "EvalAlgorithmClientError"}
        /\ val_result'.status = "EvalAlgorithmClientError" <=> MissingPositions # {}
        /\ MissingPositions # {} =>
              LET first == CHOOSE i \in MissingPositions :
                              \A j \in MissingPositions : i <= j
              IN  val_result'.message =
                     <<"Missing required column: ", val_column_names[first],
                       ", for evaluate() method">>
        /\ MissingPositions = {} => val_result'.message = <<>>]_vars

\* Two names are missing; the message has the first.
C21_Witness ==
    /\ val_pc = "done"
    /\ val_columns = {"model_input"}
    /\ val_column_names = <<"model_input", "category", "target_output">>
    /\ val_result = [status |-> "EvalAlgorithmClientError",
                     message |-> <<"Missing required column: ", "category",
                                   ", for evaluate() method">>]

C21_WitnessAllPresent ==
    /\ val_pc = "done"
    /\ Len(val_column_names) = 3
    /\ val_result.status = "ok"

(***************************************************************************)
(* Claims about the time of configuration errors (checked under SpecCall)  *)
(***************************************************************************)
\* C22: a BertScoreDissimilarity given zero bert_score_keys fails with
\* ConfigError when it is constructed: once the constructor has run there is
\* no instance, and no call of the transform ever raises ConfigError.
C22_ZeroKeysFailAtConstruction ==
    /\ (call_target = "BSD" /\ bert_score_keys = <<>> /\ bsd.status # "none") =>
          bsd.status = "ConfigError"
    /\ call_pc = "done" => call_result.status # "ConfigError"

\* What the code does with zero keys: the constructor succeeds, and the call
\* raises the ConfigError of Mean, whatever the record.
C22_ZeroKeysFailAtFirstCall ==
    (call_target = "BSD" /\ bert_score_keys = <<>>) =>
        /\ bsd.status \in {"none", "ok"}
        /\ call_pc = "done" =>
              /\ call_result.status = "ConfigError"
              /\ call_record = call_arg

C22_WitnessFirstCall ==
    /\ CallDone("BSD")
    /\ bert_score_keys = <<>>
    /\ Len(call_arg) = 3
    /\ call_result.status = "ConfigError"

(***************************************************************************)
(* Claims about the row-wise map functions (checked under SpecMap)         *)
(***************************************************************************)
\* The input of row i.
MapInputOf(i) == Get(gp_rows[i], MODEL_INPUT)

\* C23: if predict (or the prompt composition) raises on a row, the call
\* raises and returns no dataset, also when other rows were already mapped;
\* a dataset is returned only when no row made it raise.
C23_FailFast ==
    /\ (\E i \in 1..Len(gp_rows) : gp_mapped[i].status = "raised") => gp_pc = "raised"
    /\ gp_pc # "done" => gp_result = <<>>
    /\ gp_pc = "done" => \A i \in 1..Len(gp_rows) : MapInputOf(i) \notin gp_failing
    /\ gp_pc = "raised" => \E i \in 1..Len(gp_rows) : /\ MapInputOf(i) \in gp_failing
                                                      /\ gp_mapped[i].status = "raised"

\* predict raised on one row after another row had been mapped.
C23_Witness ==
    /\ gp_kind = "predict"
    /\ gp_pc = "raised"
    /\ gp_result = <<>>
    /\ \E i \in 1..Len(gp_rows) : gp_mapped[i].status = "ok"

\* The prompt composition raised on one row after another row had been mapped.
C23_WitnessPrompt ==
    /\ gp_kind = "prompt"
    /\ gp_pc = "raised"
    /\ gp_result = <<>>
    /\ \E i \in 1..Len(gp_rows) : gp_mapped[i].status = "ok"

\* What a row is after the model call, as a function of the row and of the
\* arguments of the call alone: the items of the row with the values under
\* the two given names replaced, then the given names the row did not have.
MapExpectedRow(r) ==
    LET predict_output == Predict(Get(r, MODEL_INPUT))
        replaced == [k \in 1..Len(r) |->
                       IF gp_output_col # "" /\ r[k].key = gp_output_col
                       THEN [key |-> r[k].key, value |-> predict_output[1]]
                       ELSE IF gp_log_prob_col # "" /\ r[k].key = gp_log_prob_col
                       THEN [key |-> r[k].key, value |-> predict_output[2]]
                       ELSE r[k]]
        new_output == IF gp_output_col # "" /\ gp_output_col \notin Keys(r)
                      THEN <<[key |-> gp_output_col, value |-> predict_output[1]]>>
                      ELSE <<>>
        new_log_prob == IF gp_log_prob_col # "" /\ gp_log_prob_col \notin Keys(r)
                        THEN <<[key |-> gp_log_prob_col, value |-> predict_output[2]]>>
                        ELSE <<>>
    IN  replaced \o new_output \o new_log_prob

\* C24: whichever actor handled which row and in whatever order, the
\* dataset the model call returns has one row for each input row, in the
\* order of the input, and each is determined by its own input row.
C24_ResultIndependentOfWorkers ==
    (gp_kind = "predict" /\ gp_pc = "done") =>
        gp_result = [i \in 1..Len(gp_rows) |-> MapExpectedRow(gp_rows[i])]

\* Two different rows, the second handled by actor 1 and the first by actor 2.
C24_Witness ==
    /\ gp_kind = "predict"
    /\ gp_pc = "done"
    /\ gp_output_col # ""
    /\ Len(gp_rows) = 2
    /\ gp_rows[1] # gp_rows[2]
    /\ Len(gp_calls[1]) = 1 /\ gp_calls[1][1].actor = 2
    /\ Len(gp_calls[2]) = 1 /\ gp_calls[2][1].actor = 1

\* C25: an actor obtains its model runner once, when it is initialized, and
\* never again; every row is handled by an actor that has obtained it; when
\* the call returns each of the get_num_actors() actors has obtained it
\* exactly once, whatever the number of rows.
C25_OneInitPerActor ==
    gp_kind = "predict" =>
        /\ Len(gp_actors) = gp_num_actors
        /\ \A w \in 1..Len(gp_actors) :
              gp_actors[w].inits = IF gp_actors[w].initialized THEN 1 ELSE 0
        /\ \A i \in 1..Len(gp_rows) : \A k \in 1..Len(gp_calls[i]) :
              gp_actors[gp_calls[i][k].actor].inits = 1
        /\ gp_pc = "done" => \A w \in 1..Len(gp_actors) : gp_actors[w].inits = 1

\* Two actors and two rows, both rows handled by the same actor.
C25_Witness ==
    /\ gp_kind = "predict"
    /\ gp_pc = "done"
    /\ gp_num_actors = 2
    /\ Len(gp_rows) = 2
    /\ gp_calls[1][1].actor = gp_calls[2][1].actor

\* Two actors and no row.
C25_WitnessNoRows ==
    /\ gp_kind = "predict"
    /\ gp_pc = "done"
    /\ gp_num_actors = 2
    /\ Len(gp_rows) = 0

\* C26: predict is called at most once for a row, with the row's
\* model-input value, and exactly once for every row when the call returns;
\* then the model-output column holds the output if and only if its name was
\* given, the log-probability column the log probability if and only if its
\* name was given, and every other column of the row is what it was.
C26_PredictOncePerRow ==
    gp_kind = "predict" =>
        /\ \A i \in 1..Len(gp_rows) :
              /\ Len(gp_calls[i]) <= 1
              /\ \A k \in 1..Len(gp_calls[i]) : gp_calls[i][k].prompt = MapInputOf(i)
        /\ gp_pc = "done" =>
              /\ Len(gp_result) = Len(gp_rows)
              /\ \A i \in 1..Len(gp_rows) :
                    LET given == {gp_output_col, gp_log_prob_col} \ {""}
                    IN  /\ Len(gp_calls[i]) = 1
                        /\ Keys(gp_result[i]) = Keys(gp_rows[i]) \cup given
                        /\ Len(gp_result[i]) = Cardinality(Keys(gp_result[i]))
                        /\ gp_output_col # "" =>
                              Get(gp_result[i], gp_output_col) = Predict(MapInputOf(i))[1]
                        /\ gp_log_prob_col # "" =>
                              Get(gp_result[i], gp_log_prob_col) = Predict(MapInputOf(i))[2]
                        /\ \A key \in Keys(gp_rows[i]) \ given :
                              Get(gp_result[i], key) = Get(gp_rows[i], key)

\* Both names given, on a row that has a further column.
C26_Witness ==
    /\ gp_kind = "predict"
    /\ gp_pc = "done"
    /\ gp_output_col # "" /\ gp_log_prob_col # ""
    /\ Len(gp_rows) = 2
    /\ "target_output" \in Keys(gp_rows[1])

\* The output name alone given, on a row that has a column of that name.
C26_WitnessOutputOnly ==
    /\ gp_kind = "predict"
    /\ gp_pc = "done"
    /\ gp_output_col = "model_output" /\ gp_log_prob_col = ""
    /\ Len(gp_rows) >= 1
    /\ "model_output" \in Keys(gp_rows[1])

\* Neither name given: the rows are returned as they were.
C26_WitnessNoNames ==
    /\ gp_kind = "predict"
    /\ gp_pc = "done"
    /\ gp_output_col = "" /\ gp_log_prob_col = ""
    /\ Len(gp_rows) >= 1
    /\ gp_result = gp_rows

(***************************************************************************)
(* Claims about what aggregate_evaluation_scores returns (checked under    *)
(* SpecAgg)                                                                *)
(***************************************************************************)
\* C27: when aggregate_evaluation_scores returns, the second component is
\* None if and only if the dataset has no category column.
C27_NoneIffNoCategoryColumn ==
    (agg_pc = "done" /\ agg_result.status = "ok") =>
        (~agg_result.category_scores.some <=> CATEGORY \notin columns)

\* On a dataset that has a row the second component is None exactly when
\* there is no category column.
C27_NoneIffNoCategoryColumnWithRows ==
    (agg_pc = "done" /\ agg_result.status = "ok" /\ dataset # <<>>) =>
        (~agg_result.category_scores.some <=> CATEGORY \notin columns)

\* A category column, no row, no score column: the call returns None.
C27_WitnessNoRows ==
    /\ agg_pc = "done"
    /\ agg_result.status = "ok"
    /\ CATEGORY \in columns
    /\ dataset = <<>>
    /\ ~agg_result.category_scores.some

\* A category column and rows of two categories: the call returns a list.
C27_WitnessWithRows ==
    /\ agg_pc = "done"
    /\ agg_result.status = "ok"
    /\ CATEGORY \in columns
    /\ Len(dataset) = 2
    /\ agg_result.category_scores.some
    /\ Len(agg_result.category_scores.val) = 2

(***************************************************************************)
(* Claims about the columns of an EvalOutputRecord (checked under          *)
(* SpecRecord)                                                             *)
(***************************************************************************)
\* C28: every EvalOutputRecord there is has the keys of dataset_columns in
\* DATASET_COLUMNS; the constructor called with a dict that has a key outside
\* DATASET_COLUMNS raises EvalAlgorithmInternalError, and with none it
\* returns the record with that dict; from_row never raises that error.
C28_ColumnsInAllowList ==
    /\ record.status = "ok" => Keys(record.dataset_columns) \subseteq Range(DATASET_COLUMNS)
    /\ rec_pc = "constructed" =>
          IF Keys(row) \subseteq Range(DATASET_COLUMNS)
          THEN record.status = "ok" /\ record.dataset_columns = row
          ELSE record.status = "EvalAlgorithmInternalError"
    /\ rec_pc \in {"to_dict", "done"} => record.status # "EvalAlgorithmInternalError"

\* The constructor was called with a column outside the allow-list.
C28_Witness ==
    /\ rec_pc = "constructed"
    /\ "aux" \in Keys(row)
    /\ "model_input" \in Keys(row)
    /\ record.status = "EvalAlgorithmInternalError"

\* from_row returned for a row with a column outside the allow-list.
C28_WitnessFromRow ==
    /\ rec_pc = "done"
    /\ "aux" \in Keys(row)
    /\ "model_input" \in Keys(row)
    /\ record.status = "ok"
    /\ Keys(record.dataset_columns) = {"model_input"}

(***************************************************************************)
(* Claims about packaging an aggregation result (checked under SpecAgg)    *)
(***************************************************************************)
\* C29: when aggregate_evaluation_scores returns for a dataset with a
\* category column, every CategoryScore returned has the score names of the
\* dataset scores returned, the same set and as many, and the construction
\* of an EvalOutput from the two components does not raise.
C29_ResultIsConsistent ==
    (agg_pc = "done" /\ agg_result.status = "ok" /\ CATEGORY \in columns) =>
        /\ \A i \in 1..Len(agg_result.category_scores.val) :
              LET scores == agg_result.category_scores.val[i].scores IN
              /\ {scores[k].name : k \in 1..Len(scores)}
                    = {agg_result.dataset_scores[k].name :
                          k \in 1..Len(agg_result.dataset_scores)}
              /\ Len(scores) = Len(agg_result.dataset_scores)
        /\ EvalOutput_init("e", "d", Some(agg_result.dataset_scores),
                           agg_result.category_scores, PyNone).status = "ok"

\* Two score columns, rows of two categories.
C29_Witness ==
    /\ agg_pc = "done"
    /\ agg_result.status = "ok"
    /\ CATEGORY \in columns
    /\ score_column_names = <<"s2", "s1">>
    /\ agg_result.category_scores.some
    /\ Len(agg_result.category_scores.val) = 2

\* The same score column twice.
C29_WitnessRepeatedName ==
    /\ agg_pc = "done"
    /\ agg_result.status = "ok"
    /\ CATEGORY \in columns
    /\ score_column_names = <<"s1", "s1">>
    /\ agg_result.category_scores.some

(***************************************************************************)
(* Claims about reordering the rows (checked under SpecPermute)            *)
(***************************************************************************)
BothAggregated == agg_pc = "done" /\ perm_result.status # "none"

\* The names of a list of EvalScores, in order.
NamesInOrder(scores) == [k \in 1..Len(scores) |-> scores[k].name]

\* The sum of a column in exact arithmetic.
RECURSIVE ExactSum(_, _)
ExactSum(rows, col) ==
    IF rows = <<>> THEN 0 ELSE Head(rows)[col] + ExactSum(Tail(rows), col)

\* No addition of the values of a score column can round: every partial sum,
\* in whatever order, is a whole number below 8.
NoRounding == \A col \in Range(score_column_names) : ExactSum(dataset, col) < 8

C30_WitnessRounding ==
    /\ BothAggregated
    /\ agg_result.status = "ok"
    /\ [i \in 1..Len(dataset) |-> dataset[i].s1] = <<8, 1, 1>>
    /\ [i \in 1..Len(perm_dataset) |-> perm_dataset[i].s1] = <<1, 1, 8>>
    /\ agg_result.dataset_scores = <<EvalScore("s2", Rat(0, 1)), EvalScore("s1", Rat(8, 3))>>
    /\ perm_result.dataset_scores = <<EvalScore("s2", Rat(0, 1)), EvalScore("s1", Rat(10, 3))>>

====
